---- MODULE Spec2Model ----
(***************************************************************************)
(* A model of drawdb's Laravel migrations export                           *)
(* (src/src/utils/exportAs/laravel.js): toLaravel and the helpers it       *)
(* calls, stepped one loop iteration at a time.                            *)
(***************************************************************************)
EXTENDS Integers, Sequences, FiniteSets, TLC

\* ------------------------------------------------------------------ bounds
\* The most tables a diagram of the model holds.
MaxTables == 3
\* The most references a diagram of the model holds.
MaxRefs == 3
\* The cap on TimestampManager.currentOffset (the do/while of
\* getNextTimestamp never ends on an Invalid Date).
MaxOffset == 8

\* ------------------------------------------------------ the platform's Date
\* An instant is a UTC epoch day and a second of that day (a Date's time
\* value, whole seconds: generateTimestamp adds whole seconds and prints none
\* of the milliseconds).
SecondsPerDay == 86400

Instant(day, sec) == [day |-> day, sec |-> sec]

\* new Date(t.getTime() + n * 1000)
AddSeconds(t, n) ==
  LET total == t.sec + n
  IN  [day |-> t.day + (total \div SecondsPerDay), sec |-> total % SecondsPerDay]

Before(a, b) == a.day < b.day \/ (a.day = b.day /\ a.sec < b.sec)

\* The process's time zone. America/New_York is modelled around its 2024
\* return to standard time: UTC-4 until 2024-11-03T06:00:00Z, UTC-5 from then.
Zones == {"UTC", "America/New_York"}
FallBackDay == 20030
FallBackSec == 21600

ZoneOffset(t, zone) ==
  IF zone = "UTC" THEN 0
  ELSE IF Before(t, Instant(FallBackDay, FallBackSec)) THEN 0 - 14400 ELSE 0 - 18000

LocalTime(t, zone) == AddSeconds(t, ZoneOffset(t, zone))

\* Year, month and day of an epoch day of the proleptic Gregorian calendar
\* (what getFullYear, getMonth() + 1 and getDate read of the local time).
CivilFromDays(days) ==
  LET z   == days + 719468
      era == z \div 146097
      doe == z - era * 146097
      yoe == (doe - (doe \div 1460) + (doe \div 36524) - (doe \div 146096)) \div 365
      doy == doe - (365 * yoe + (yoe \div 4) - (yoe \div 100))
      mp  == (5 * doy + 2) \div 153
      d   == doy - ((153 * mp + 2) \div 5) + 1
      m   == IF mp < 10 THEN mp + 3 ELSE mp - 9
      y   == yoe + era * 400 + (IF m <= 2 THEN 1 ELSE 0)
  IN  [year |-> y, month |-> m, day |-> d]

\* ------------------------------------------------------------------ strings
\* A string of the timestamp alphabet is the sequence of its characters:
\* a digit is its value, the others are the codes below.  The underscore
\* collates before every digit (localeCompare puts punctuation first).
Underscore == 0 - 1
LetterN == 40
LetterA == 41

RECURSIVE Digits(_)
\* String(n) of a natural number: no padding.
Digits(n) == IF n < 10 THEN <<n>> ELSE Digits(n \div 10) \o <<n % 10>>

\* String(n).padStart(2, '0')
PadStart2(n) == IF n < 10 THEN <<0, n>> ELSE Digits(n)

NaNString == <<LetterN, LetterA, LetterN>>

RECURSIVE localeCompare(_, _)
\* a.localeCompare(b) on strings of the timestamp alphabet: negative, zero or
\* positive as a sorts before, with or after b.
localeCompare(a, b) ==
  IF a = <<>> /\ b = <<>> THEN 0
  ELSE IF a = <<>> THEN 0 - 1
  ELSE IF b = <<>> THEN 1
  ELSE IF Head(a) < Head(b) THEN 0 - 1
  ELSE IF Head(a) > Head(b) THEN 1
  ELSE localeCompare(Tail(a), Tail(b))

\* --------------------------------------------------------- TimestampManager
\* A baseTime is what the constructor kept: a Date holding an instant, an
\* Invalid Date, or a truthy value that is no Date (a string, a number).
DateAt(t) == [kind |-> "date", at |-> t]
InvalidDate == [kind |-> "invalid"]
NotADate == [kind |-> "nondate"]
Absent == [kind |-> "absent"]

\* TimestampManager.generateTimestamp: the local time of baseTime + offset
\* seconds printed as `${year}_${MM}_${DD}_${HH}${mm}${ss}`.
generateTimestamp(baseTime, offset, zone) ==
  IF baseTime.kind = "invalid"
  THEN NaNString \o <<Underscore>> \o NaNString \o <<Underscore>> \o NaNString
       \o <<Underscore>> \o NaNString \o NaNString \o NaNString
  ELSE LET local == LocalTime(AddSeconds(baseTime.at, offset), zone)
           civil == CivilFromDays(local.day)
           hour == local.sec \div 3600
           minute == (local.sec % 3600) \div 60
           second == local.sec % 60
       IN  Digits(civil.year) \o <<Underscore>> \o PadStart2(civil.month)
           \o <<Underscore>> \o PadStart2(civil.day) \o <<Underscore>>
           \o PadStart2(hour) \o PadStart2(minute) \o PadStart2(second)


\* -------------------------------------------------------------- the diagram
\* The names of the model's tables, and what the string helpers make of them.
TableNames == <<"users", "posts", "PostComments", "tags", "Orders">>

\* toSnakeCase: non-word runs to spaces, split at spaces and before capitals
\* inside a word, lower-cased, joined with underscores.
toSnakeCase(str) ==
  CASE str = "users" -> "users"
    [] str = "posts" -> "posts"
    [] str = "PostComments" -> "post_comments"
    [] str = "tags" -> "tags"
    [] str = "Orders" -> "orders"
    [] str = "products" -> "products"

\* toPascalCase: the first letter, every capital and every letter after a
\* word boundary upper-cased, white space removed.
toPascalCase(str) ==
  CASE str = "users" -> "Users"
    [] str = "posts" -> "Posts"
    [] str = "PostComments" -> "PostComments"
    [] str = "tags" -> "Tags"
    [] str = "Orders" -> "Orders"
    [] str = "products" -> "Products"

\* foreignTable.replace(/s$/, '')
StripFinalS(str) ==
  CASE str = "users" -> "user"
    [] str = "posts" -> "post"
    [] str = "PostComments" -> "PostComment"
    [] str = "tags" -> "tag"
    [] str = "Orders" -> "Order"
    [] str = "categories" -> "categorie"
    [] str = "staff" -> "staff"

\* A property a field does not have (undefined) where the others hold a number.
Missing == 0 - 1

\* What `value && ...` and `value || ...` take for false of a number.
Falsy(value) == value = Missing \/ value = 0

\* A field of the diagram with every property of the editor's fields.
EditorField(id, name, type, size, precision, scale, primary, increment) ==
  [id |-> id, name |-> name, type |-> type, size |-> size,
   precision |-> precision, scale |-> scale, default |-> "",
   notNull |-> primary, primary |-> primary, unique |-> FALSE,
   increment |-> increment, comment |-> "", values |-> <<>>]

Field(id, name, type) ==
  EditorField(id, name, type, Missing, Missing, Missing, FALSE, FALSE)

\* The table with id i: an id column and one more column.
TableAt(i) ==
  [id |-> i,
   name |-> TableNames[i],
   fields |->
     CASE i = 1 -> <<Field(1, "id", "BIGINT"), Field(2, "email", "VARCHAR")>>
       [] i = 2 -> <<Field(1, "id", "BIGINT"), Field(2, "user_id", "BIGINT")>>
       [] i = 3 -> <<Field(1, "id", "BIGINT"), Field(2, "post_id", "BIGINT")>>
       [] i = 4 -> <<Field(1, "id", "BIGINT"), Field(2, "name", "VARCHAR")>>
       [] OTHER -> <<Field(1, "id", "BIGINT"), Field(2, "user_id", "BIGINT")>>]

TablesUpTo(n) == [i \in 1..n |-> TableAt(i)]

\* An id no table has, and an id no field has.
NoSuchTable == 99
NoSuchField == 98

Reference(st, sf, et, ef, upd, del) ==
  [startTableId |-> st, startFieldId |-> sf, endTableId |-> et, endFieldId |-> ef,
   updateConstraint |-> upd, deleteConstraint |-> del]

\* The references the model's diagrams draw from: the conventional
\* posts.user_id -> users.id, PostComments.post_id -> posts.id,
\* users.email -> PostComments.id (which closes a cycle over the three
\* tables), a self-reference, and two references whose end table, or whose
\* start field, does not exist.
RefDomain ==
  { Reference(2, 2, 1, 1, "RESTRICT", "CASCADE"),
    Reference(3, 2, 2, 1, "NONE", "RESTRICT"),
    Reference(1, 2, 3, 1, "CASCADE", "SET_NULL"),
    Reference(3, 2, 3, 1, "NONE", "NONE"),
    Reference(2, 2, NoSuchTable, 1, "NONE", "NONE"),
    Reference(2, NoSuchField, 1, 1, "NONE", "NONE") }

RECURSIVE SeqsUpTo(_, _)
\* The sequences of distinct elements of S of length at most n.
SeqsUpTo(S, n) ==
  IF n = 0 THEN {<<>>}
  ELSE LET shorter == SeqsUpTo(S, n - 1)
       IN  shorter \cup
           UNION { {Append(q, x) : x \in S \ {q[i] : i \in 1..Len(q)}} :
                   q \in {r \in shorter : Len(r) = n - 1} }

NoDiagram == [present |-> FALSE, hasTables |-> FALSE, tables |-> <<>>,
              hasReferences |-> FALSE, references |-> <<>>]

Diagrams ==
  {NoDiagram}
  \cup { [present |-> TRUE, hasTables |-> FALSE, tables |-> <<>>,
          hasReferences |-> hr, references |-> <<>>] : hr \in BOOLEAN }
  \cup { [present |-> TRUE, hasTables |-> TRUE, tables |-> TablesUpTo(n),
          hasReferences |-> FALSE, references |-> <<>>] : n \in 0..MaxTables }
  \cup { [present |-> TRUE, hasTables |-> TRUE, tables |-> TablesUpTo(n),
          hasReferences |-> TRUE, references |-> refs] :
          n \in 0..MaxTables, refs \in SeqsUpTo(RefDomain, MaxRefs) }

\* What a caller passes as options.baseTimestamp, with the zone the process
\* runs in: a Date well inside a year, a Date two seconds before the local
\* year 10000, a Date two seconds before New York's clocks go back, nothing,
\* an Invalid Date, and a value that is no Date.
MidYear == Instant(19889, 43200)
EndOf9999 == Instant(2932896, 86398)
BeforeFallBack == Instant(20030, 21598)

Environments ==
  { [zone |-> "UTC", baseTimestamp |-> DateAt(MidYear)],
    [zone |-> "UTC", baseTimestamp |-> DateAt(EndOf9999)],
    [zone |-> "America/New_York", baseTimestamp |-> DateAt(BeforeFallBack)],
    [zone |-> "UTC", baseTimestamp |-> Absent],
    [zone |-> "UTC", baseTimestamp |-> InvalidDate],
    [zone |-> "UTC", baseTimestamp |-> NotADate] }


\* -------------------------------------------------------------------- state
VARIABLES
  diagram,            \* toLaravel's first argument
  options,            \* its second: baseTimestamp and includeForeignKeys
  zone,               \* the time zone of the process
  clock,              \* the wall clock, what new Date() reads
  pc,                 \* where the call is
  timestampManager,   \* baseTime, currentOffset, usedTimestamps
  tableMigrations,    \* what generateTableMigrations has mapped so far
  refIndex,           \* references groupRelationshipsByTable has visited
  grouped,            \* its Map, as the sequence of its entries in insertion order
  relationshipMigrations, \* what generateRelationshipMigrations has pushed so far
  result,             \* what the call returned
  calls,              \* how many times the caller has called toLaravel
  first               \* what the first call returned

VARIABLES
  relationship,       \* generateForeignKeyDefinition alone: the relationship it is given
  statement,          \* and the constraint statement it returned
  cpc,                \* one column on its way: where it is
  col,                \* the column as the last step left it
  exported,           \* what toLaravel returned for the table of that column
  bpc,                \* the DBML bridge: where the import is
  schema,             \* what getTableSchema returned
  dbml,               \* the DBML text, statement by statement
  ast,                \* what the parser made of it
  imported            \* what convertDBMLToDiagram returned

VARIABLES
  server,             \* the import server: "off" or "running"
  connections,        \* DatabaseService.connections: connection id -> entry
  opened,             \* the ids whose driver connection is open
  nextId,             \* how many connection ids have been generated
  session,            \* req.session.connectionId of the browser's session
  requests,           \* the requests in flight: where each handler is
  wallTime            \* the server's clock, in minutes

VARIABLES
  registered,         \* DatabaseService alone: its connections map
  handles,            \* the driver connections: open, or who ended them
  invocation,         \* the getTableSchema or listTables call in flight
  pendingCloses,      \* the closeConnection calls that await connection.end()
  ledger,             \* the ids createConnection returned, the ids closed or swept
  lastCall,           \* the createConnection or closeConnection settled last
  serviceTime,        \* the clock of the service, in minutes
  lastSchema,         \* req.session.lastSchema
  served,             \* the schema generateDBML serialized last
  gist,               \* GistsService: the gist's file
  patches             \* the patch calls in flight

vars == <<diagram, options, zone, clock, pc, timestampManager, tableMigrations,
          refIndex, grouped, relationshipMigrations, result, calls, first,
          relationship, statement, cpc, col, exported,
          bpc, schema, dbml, ast, imported,
          server, connections, opened, nextId, session, requests, wallTime,
          registered, handles, invocation, pendingCloses, ledger, lastCall,
          serviceTime, lastSchema, served, gist, patches>>

\* The variables of each of the other specifications.
foreignKeyVars == <<relationship, statement>>
columnVars == <<cpc, col, exported>>
bridgeVars == <<bpc, schema, dbml, ast, imported>>
registryVars == <<server, connections, opened, nextId, session, requests, wallTime>>
serviceVars == <<registered, handles, invocation, pendingCloses, ledger, lastCall,
                 serviceTime>>
cacheVars == <<lastSchema, served>>
gistVars == <<gist, patches>>
exportVars == <<diagram, options, zone, clock, pc, timestampManager, tableMigrations,
                refIndex, grouped, relationshipMigrations, result, calls, first>>

\* What is not part of a toLaravel call on a whole diagram.
aside == <<foreignKeyVars, columnVars, bridgeVars, registryVars, serviceVars,
           cacheVars, gistVars>>

\* Nothing is under way in the specification these variables belong to.
ForeignKeyIdle == relationship = <<>> /\ statement = <<>>
ColumnIdle == cpc = "off" /\ col = <<>> /\ exported = <<>>
BridgeIdle == bpc = "off" /\ schema = <<>> /\ dbml = <<>> /\ ast = <<>> /\ imported = <<>>
RegistryIdle ==
  /\ server = "off"
  /\ connections = <<>>
  /\ opened = {}
  /\ nextId = 0
  /\ session = 0
  /\ requests = <<>>
  /\ wallTime = 0
ServiceIdle ==
  /\ registered = <<>>
  /\ handles = <<>>
  /\ invocation = <<>>
  /\ pendingCloses = {}
  /\ ledger = <<>>
  /\ lastCall = <<>>
 
  /\ serviceTime = 0
CacheIdle == lastSchema = <<>> /\ served = <<>>
GistIdle == gist = <<>> /\ patches = <<>>

\* What the caller passes and what it keeps.
caller == <<diagram, options, zone, calls, first>>

NoResult == [keys |-> {}, success |-> FALSE, migrations |-> <<>>, error |-> "",
             warnings |-> <<>>, suggestions |-> <<>>, generatedAt |-> MidYear]

NewManager == [baseTime |-> Absent, currentOffset |-> 0, usedTimestamps |-> {}]

Init ==
  /\ diagram \in Diagrams
  /\ \E env \in Environments, fk \in BOOLEAN :
       /\ zone = env.zone
       /\ options = [baseTimestamp |-> env.baseTimestamp, includeForeignKeys |-> fk]
  /\ clock = MidYear
  /\ pc = "idle"
  /\ timestampManager = NewManager
  /\ tableMigrations = <<>>
  /\ refIndex = 0
  /\ grouped = <<>>
  /\ relationshipMigrations = <<>>
  /\ result = NoResult
  /\ calls = 1
  /\ first = NoResult
  /\ ForeignKeyIdle
  /\ ColumnIdle
  /\ BridgeIdle
  /\ RegistryIdle
  /\ ServiceIdle
  /\ CacheIdle
  /\ GistIdle

\* ------------------------------------------------------------------ helpers
\* generateClassName
generateClassName(tableName, action) ==
  CASE action = "create" -> <<"Create", toPascalCase(tableName), "Table">>
    [] action = "add_foreign_keys" -> <<"AddForeignKeysTo", toPascalCase(tableName)>>
    [] OTHER -> <<"Modify", toPascalCase(tableName), "Table">>

\* generateFilename: the timestamp, the verb and the snake-cased table name.
generateFilename(timestamp, tableName, action) ==
  CASE action = "create" ->
         [timestamp |-> timestamp, stem |-> <<"create", toSnakeCase(tableName), "table.php">>]
    [] action = "add_foreign_keys" ->
         [timestamp |-> timestamp, stem |-> <<"add_foreign_keys_to", toSnakeCase(tableName), ".php">>]
    [] OTHER ->
         [timestamp |-> timestamp, stem |-> <<"modify", toSnakeCase(tableName), "table.php">>]

\* A map that lacks the NO_ACTION key.
mapConstraintAction_WithoutNoAction(action) ==
  CASE action = "CASCADE" -> "cascade"
    [] action = "SET_NULL" -> "set null"
    [] action = "RESTRICT" -> "restrict"
    [] action = "SET_DEFAULT" -> "set default"
    [] OTHER -> "restrict"

\* mapConstraintAction
mapConstraintAction(action) ==
  CASE action = "CASCADE" -> "cascade"
    [] action = "SET_NULL" -> "set null"
    [] action = "RESTRICT" -> "restrict"
    [] action = "NO_ACTION" -> "no action"
    [] action = "SET_DEFAULT" -> "set default"
    [] OTHER -> "restrict"

\* The arguments after the column name of the VARCHAR mapper: the size unless
\* it is missing, 0 or 255.
stringArguments(field) ==
  IF ~Falsy(field.size) /\ field.size # 255 THEN <<field.size>> ELSE <<>>

\* mapFieldTypeToLaravel: the Blueprint method of a field's type with its
\* arguments, the VARCHAR mapper for a type the table does not list.
mapFieldTypeToLaravel(field) ==
  [method |->
     CASE field.type = "INT" -> "integer"
       [] field.type = "BIGINT" -> "bigInteger"
       [] field.type = "TINYINT" -> "tinyInteger"
       [] field.type = "VARCHAR" -> "string"
       [] field.type = "CHAR" -> "char"
       [] field.type = "TEXT" -> "text"
       [] field.type = "LONGTEXT" -> "longText"
       [] field.type = "DATETIME" -> "dateTime"
       [] field.type = "TIMESTAMP" -> "timestamp"
       [] field.type = "DATE" -> "date"
       [] field.type = "TIME" -> "time"
       [] field.type = "BOOLEAN" -> "boolean"
       [] field.type = "DECIMAL" -> "decimal"
       [] field.type = "FLOAT" -> "float"
       [] field.type = "DOUBLE" -> "double"
       [] field.type = "JSON" -> "json"
       [] field.type = "UUID" -> "uuid"
       [] field.type = "ENUM" -> "enum"
       [] field.type = "BINARY" -> "binary"
       [] OTHER -> "string",
   column |-> field.name,
   arguments |->
     CASE field.type = "VARCHAR" -> stringArguments(field)
       [] field.type = "CHAR" -> IF ~Falsy(field.size) THEN <<field.size>> ELSE <<>>
       [] field.type = "DECIMAL" ->
            <<IF Falsy(field.precision) THEN 8 ELSE field.precision,
              IF Falsy(field.scale) THEN 2 ELSE field.scale>>
       [] field.type \in {"INT", "BIGINT", "TINYINT", "TEXT", "LONGTEXT", "DATETIME",
                          "TIMESTAMP", "DATE", "TIME", "BOOLEAN", "FLOAT", "DOUBLE",
                          "JSON", "UUID", "ENUM", "BINARY"} -> <<>>
       [] OTHER -> stringArguments(field),
   values |-> IF field.type = "ENUM" THEN field.values ELSE <<>>]

\* formatDefaultValue, of a default that is a string without quotes.
formatDefaultValue(defaultValue, fieldType) ==
  CASE fieldType = "BOOLEAN" ->
         IF defaultValue \in {"true", "1"} THEN "true" ELSE "false"
    [] fieldType \in {"INT", "BIGINT", "TINYINT", "DECIMAL", "FLOAT", "DOUBLE"} ->
         defaultValue
    [] OTHER -> "'" \o defaultValue \o "'"

\* generateFieldModifiers: the chained modifiers of a column, none at all for
\* an auto-incrementing primary key.
generateFieldModifiers(field) ==
  IF field.primary /\ field.increment THEN <<>>
  ELSE (IF field.primary THEN <<"primary()">> ELSE <<>>)
       \o (IF ~field.notNull /\ ~field.primary THEN <<"nullable()">> ELSE <<>>)
       \o (IF field.default # ""
           THEN <<"default(" \o formatDefaultValue(field.default, field.type) \o ")">>
           ELSE <<>>)
       \o (IF field.unique THEN <<"unique()">> ELSE <<>>)
       \o (IF field.increment /\ ~field.primary THEN <<"autoIncrement()">> ELSE <<>>)
       \o (IF field.comment # "" THEN <<"comment('" \o field.comment \o "')">> ELSE <<>>)

\* generateColumnDefinitions: one definition per field, in order: the mapped
\* method and the modifiers.
generateColumnDefinitions(fields) ==
  [i \in 1..Len(fields) |->
     [definition |-> mapFieldTypeToLaravel(fields[i]),
      modifiers |-> generateFieldModifiers(fields[i])]]

\* generateTableMigrationContent: up creates the table with its columns, down
\* drops it.
generateTableMigrationContent(table, className) ==
  [up |-> [create |-> table.name, columns |-> generateColumnDefinitions(table.fields)],
   down |-> [dropIfExists |-> table.name]]

\* A shorthand taken for every reference to an id column, whatever the name
\* of the referencing column.
generateForeignKeyDefinition_AnyColumnName(rel) ==
  LET actions ==
        [onUpdate |-> IF rel.onUpdate # "restrict" THEN <<rel.onUpdate>> ELSE <<>>,
         onDelete |-> IF rel.onDelete # "restrict" THEN <<rel.onDelete>> ELSE <<>>]
  IN  IF rel.foreignColumn = "id"
      THEN [form |-> "foreignId", column |-> rel.localColumn, name |-> "",
            references |-> "", on |-> rel.foreignTable, actions |-> actions]
      ELSE [form |-> "foreign", column |-> rel.localColumn, name |-> rel.constraintName,
            references |-> rel.foreignColumn, on |-> rel.foreignTable,
            actions |-> actions]

\* generateForeignKeyDefinition: the foreignId()->constrained() shorthand for
\* <table minus a final s>_id -> id, the explicit foreign() otherwise; an
\* action clause unless the action is restrict.
generateForeignKeyDefinition(rel) ==
  LET actions ==
        [onUpdate |-> IF rel.onUpdate # "restrict" THEN <<rel.onUpdate>> ELSE <<>>,
         onDelete |-> IF rel.onDelete # "restrict" THEN <<rel.onDelete>> ELSE <<>>]
  IN  IF rel.foreignColumn = "id"
         /\ rel.localColumn = StripFinalS(rel.foreignTable) \o "_id"
      THEN [form |-> "foreignId", column |-> rel.localColumn, name |-> "",
            references |-> "", on |-> rel.foreignTable, actions |-> actions]
      ELSE [form |-> "foreign", column |-> rel.localColumn, name |-> rel.constraintName,
            references |-> rel.foreignColumn, on |-> rel.foreignTable,
            actions |-> actions]

\* A rollback that drops the constraint of the first relationship only.
generateRelationshipMigrationContent_DropsOne(tableName, relationships, className) ==
  [up |-> [table |-> tableName,
           statements |-> [i \in 1..Len(relationships) |->
                             generateForeignKeyDefinition(relationships[i])]],
   down |-> [table |-> tableName,
             dropForeign |-> [i \in 1..(IF relationships = <<>> THEN 0 ELSE 1) |->
                                relationships[i].constraintName]]]

\* generateRelationshipMigrationContent: up adds one constraint per
\* relationship, down drops each by name.
generateRelationshipMigrationContent(tableName, relationships, className) ==
  [up |-> [table |-> tableName,
           statements |-> [i \in 1..Len(relationships) |->
                             generateForeignKeyDefinition(relationships[i])]],
   down |-> [table |-> tableName,
             dropForeign |-> [i \in 1..Len(relationships) |->
                                relationships[i].constraintName]]]


\* new Map(tables.map(t => [t.id, t])).get(id): the table with that id (the
\* last one, if several), as a sequence of at most one table.
tableMapGet(tables, id) ==
  LET hits == {i \in 1..Len(tables) : tables[i].id = id}
  IN  IF hits = {} THEN <<>>
      ELSE <<tables[CHOOSE i \in hits : \A j \in hits : j <= i]>>

\* fields.find(f => f.id === id): the first field with that id, as a sequence
\* of at most one field.
findField(fields, id) ==
  LET hits == {i \in 1..Len(fields) : fields[i].id = id}
  IN  IF hits = {} THEN <<>>
      ELSE <<fields[CHOOSE i \in hits : \A j \in hits : i <= j]>>

\* The index of tableName's entry in the Map, 0 if it has none.
groupedIndex(map, tableName) ==
  IF \E i \in 1..Len(map) : map[i].tableName = tableName
  THEN CHOOSE i \in 1..Len(map) : map[i].tableName = tableName
  ELSE 0

\* A grouping that drops a reference from a table to itself.
groupOne_DropsSelfReference(map, reference, tables) ==
  LET startTable == tableMapGet(tables, reference.startTableId)
      endTable == tableMapGet(tables, reference.endTableId)
  IN  IF startTable = <<>> \/ endTable = <<>>
         \/ reference.startTableId = reference.endTableId
      THEN map
      ELSE
        LET tableName == startTable[1].name
            withKey == IF groupedIndex(map, tableName) = 0
                       THEN Append(map, [tableName |-> tableName, relationships |-> <<>>])
                       ELSE map
            at == groupedIndex(withKey, tableName)
            startField == findField(startTable[1].fields, reference.startFieldId)
            endField == findField(endTable[1].fields, reference.endFieldId)
        IN  IF startField # <<>> /\ endField # <<>>
            THEN [withKey EXCEPT ![at].relationships =
                    Append(@, [localColumn |-> startField[1].name,
                               foreignTable |-> endTable[1].name,
                               foreignColumn |-> endField[1].name,
                               constraintName |-> tableName \o "_" \o startField[1].name
                                                  \o "_foreign",
                               onUpdate |-> mapConstraintAction(reference.updateConstraint),
                               onDelete |-> mapConstraintAction(reference.deleteConstraint)])]
            ELSE withKey

\* The body of groupRelationshipsByTable's forEach for one reference.
groupOne(map, reference, tables) ==
  LET startTable == tableMapGet(tables, reference.startTableId)
      endTable == tableMapGet(tables, reference.endTableId)
  IN  IF startTable = <<>> \/ endTable = <<>> THEN map
      ELSE
        LET tableName == startTable[1].name
            withKey == IF groupedIndex(map, tableName) = 0
                       THEN Append(map, [tableName |-> tableName, relationships |-> <<>>])
                       ELSE map
            at == groupedIndex(withKey, tableName)
            startField == findField(startTable[1].fields, reference.startFieldId)
            endField == findField(endTable[1].fields, reference.endFieldId)
        IN  IF startField # <<>> /\ endField # <<>>
            THEN [withKey EXCEPT ![at].relationships =
                    Append(@, [localColumn |-> startField[1].name,
                               foreignTable |-> endTable[1].name,
                               foreignColumn |-> endField[1].name,
                               constraintName |-> tableName \o "_" \o startField[1].name
                                                  \o "_foreign",
                               onUpdate |-> mapConstraintAction(reference.updateConstraint),
                               onDelete |-> mapConstraintAction(reference.deleteConstraint)])]
            ELSE withKey

RECURSIVE insertSorted(_, _)
\* m put into the sorted sequence s after every element that does not sort
\* after it.
insertSorted(s, m) ==
  IF s = <<>> THEN <<m>>
  ELSE IF localeCompare(Head(s).timestamp, m.timestamp) <= 0
       THEN <<Head(s)>> \o insertSorted(Tail(s), m)
       ELSE <<m>> \o s

RECURSIVE sortByTimestamp(_)
\* [...].sort((a, b) => a.timestamp.localeCompare(b.timestamp)): a stable sort.
sortByTimestamp(s) ==
  IF s = <<>> THEN <<>>
  ELSE insertSorted(sortByTimestamp(SubSeq(s, 1, Len(s) - 1)), s[Len(s)])


\* ------------------------------------------------------------------ actions
Failure(message) ==
  [keys |-> {"success", "error", "warnings", "suggestions"}, success |-> FALSE,
   migrations |-> <<>>, error |-> message, warnings |-> <<>>,
   suggestions |-> <<>>, generatedAt |-> MidYear]

Success(allMigrations) ==
  [keys |-> {"success", "migrations", "metadata", "warnings", "suggestions"},
   success |-> TRUE, migrations |-> allMigrations, error |-> "", warnings |-> <<>>,
   suggestions |-> <<>>, generatedAt |-> clock]

\* The timestamp getNextTimestamp's loop tries next.
Candidate ==
  generateTimestamp(timestampManager.baseTime, timestampManager.currentOffset, zone)

\* tables.map has a table left to map.
TableDue ==
  /\ pc = "tables"
  /\ diagram.hasTables
  /\ Len(tableMigrations) < Len(diagram.tables)

\* groupRelationshipsByTable is done and the for/of has an entry left.
ForeignKeysDue ==
  /\ pc = "relationships"
  /\ refIndex = Len(diagram.references)
  /\ Len(relationshipMigrations) < Len(grouped)

\* A constructor that reads the wall clock whatever it is given.
newTimestampManager_WallClock(baseTimestamp, now) ==
  [baseTime |-> IF baseTimestamp.kind \in {"absent", "date"}
                THEN DateAt(now) ELSE baseTimestamp,
   currentOffset |-> 0,
   usedTimestamps |-> {}]

\* new TimestampManager(baseTimestamp): baseTimestamp || new Date().
newTimestampManager(baseTimestamp, now) ==
  [baseTime |-> IF baseTimestamp.kind = "absent" THEN DateAt(now) ELSE baseTimestamp,
   currentOffset |-> 0,
   usedTimestamps |-> {}]

\* toLaravel(undefined): diagram.database is read before the try block.
CallThrows ==
  /\ pc = "idle"
  /\ ~diagram.present
  /\ pc' = "thrown"
  /\ UNCHANGED <<aside, caller, clock, timestampManager, tableMigrations,
                 refIndex, grouped, relationshipMigrations, result>>

\* The config, and new TimestampManager(options.baseTimestamp).
Call ==
  /\ pc = "idle"
  /\ diagram.present
  /\ timestampManager' = newTimestampManager(options.baseTimestamp, clock)
  /\ pc' = "tables"
  /\ UNCHANGED <<aside, caller, clock, tableMigrations, refIndex, grouped,
                 relationshipMigrations, result>>

\* getNextTimestamp on a baseTime with no getTime: the TypeError lands in
\* toLaravel's catch.
TimestampThrows ==
  /\ TableDue \/ ForeignKeysDue
  /\ timestampManager.baseTime.kind = "nondate"
  /\ result' = Failure("this.baseTime.getTime is not a function")
  /\ pc' = "done"
  /\ UNCHANGED <<aside, caller, clock, timestampManager, tableMigrations,
                 refIndex, grouped, relationshipMigrations>>

\* One more turn of getNextTimestamp's do/while: the timestamp was used.
TimestampRetry ==
  /\ TableDue \/ ForeignKeysDue
  /\ timestampManager.baseTime.kind # "nondate"
  /\ Candidate \in timestampManager.usedTimestamps
  /\ timestampManager.currentOffset < MaxOffset
  /\ timestampManager' = [timestampManager EXCEPT !.currentOffset = @ + 1]
  /\ UNCHANGED <<aside, caller, clock, pc, tableMigrations, refIndex, grouped,
                 relationshipMigrations, result>>

\* getNextTimestamp leaving its loop.
TakeTimestamp ==
  timestampManager' =
    [timestampManager EXCEPT !.currentOffset = @ + 1,
                             !.usedTimestamps = @ \cup {Candidate}]

\* generateTableMigrations: the next table of tables.map.
TableMigration ==
  /\ TableDue
  /\ timestampManager.baseTime.kind # "nondate"
  /\ Candidate \notin timestampManager.usedTimestamps
  /\ LET table == diagram.tables[Len(tableMigrations) + 1]
         className == generateClassName(table.name, "create")
     IN  tableMigrations' =
           Append(tableMigrations,
                  [type |-> "table",
                   filename |-> generateFilename(Candidate, table.name, "create"),
                   content |-> generateTableMigrationContent(table, className),
                   table |-> table.name,
                   timestamp |-> Candidate,
                   className |-> className])
  /\ TakeTimestamp
  /\ UNCHANGED <<aside, caller, clock, pc, refIndex, grouped,
                 relationshipMigrations, result>>

\* The tables are mapped (or there is no tables array) and foreign keys are
\* wanted: generateRelationshipMigrations starts grouping.
StartRelationships ==
  /\ pc = "tables"
  /\ ~TableDue
  /\ options.includeForeignKeys
  /\ diagram.hasReferences
  /\ diagram.hasTables
  /\ pc' = "relationships"
  /\ UNCHANGED <<aside, caller, clock, timestampManager, tableMigrations,
                 refIndex, grouped, relationshipMigrations, result>>

\* groupRelationshipsByTable with no tables array: tables.map throws.
GroupingThrows ==
  /\ pc = "tables"
  /\ ~TableDue
  /\ options.includeForeignKeys
  /\ diagram.hasReferences
  /\ ~diagram.hasTables
  /\ result' = Failure("Cannot read properties of undefined (reading 'map')")
  /\ pc' = "done"
  /\ UNCHANGED <<aside, caller, clock, timestampManager, tableMigrations,
                 refIndex, grouped, relationshipMigrations>>

\* includeForeignKeys is off, or references is no array: no foreign keys.
SkipRelationships ==
  /\ pc = "tables"
  /\ ~TableDue
  /\ ~(options.includeForeignKeys /\ diagram.hasReferences)
  /\ pc' = "return"
  /\ UNCHANGED <<aside, caller, clock, timestampManager, tableMigrations,
                 refIndex, grouped, relationshipMigrations, result>>

\* groupRelationshipsByTable: the next reference of references.forEach.
GroupReference ==
  /\ pc = "relationships"
  /\ refIndex < Len(diagram.references)
  /\ grouped' = groupOne(grouped, diagram.references[refIndex + 1], diagram.tables)
  /\ refIndex' = refIndex + 1
  /\ UNCHANGED <<aside, caller, clock, pc, timestampManager, tableMigrations,
                 relationshipMigrations, result>>

\* generateRelationshipMigrations: the next entry of the Map.
ForeignKeyMigration ==
  /\ ForeignKeysDue
  /\ timestampManager.baseTime.kind # "nondate"
  /\ Candidate \notin timestampManager.usedTimestamps
  /\ LET entry == grouped[Len(relationshipMigrations) + 1]
         className == generateClassName(entry.tableName, "add_foreign_keys")
     IN  relationshipMigrations' =
           Append(relationshipMigrations,
                  [type |-> "foreign_keys",
                   filename |-> generateFilename(Candidate, entry.tableName, "add_foreign_keys"),
                   content |-> generateRelationshipMigrationContent(
                                 entry.tableName, entry.relationships, className),
                   table |-> entry.tableName,
                   timestamp |-> Candidate,
                   className |-> className,
                   relationships |-> entry.relationships])
  /\ TakeTimestamp
  /\ UNCHANGED <<aside, caller, clock, pc, tableMigrations, refIndex, grouped,
                 result>>

\* The migrations are concatenated, sorted by timestamp and returned.
Return ==
  /\ \/ pc = "return"
     \/ /\ pc = "relationships"
        /\ refIndex = Len(diagram.references)
        /\ Len(relationshipMigrations) = Len(grouped)
  /\ result' = Success(sortByTimestamp(tableMigrations \o relationshipMigrations))
  /\ pc' = "done"
  /\ UNCHANGED <<aside, caller, clock, timestampManager, tableMigrations,
                 refIndex, grouped, relationshipMigrations>>

\* The seconds the wall clock may show to have passed between two calls.
Elapsed == {0, 1}

\* The caller calls toLaravel once more, with the same arguments, within the
\* same second or in a later one.
CallAgain ==
  /\ pc \in {"done", "thrown"}
  /\ calls = 1
  /\ \E elapsed \in Elapsed : clock' = AddSeconds(clock, elapsed)
  /\ first' = [result EXCEPT !.error = IF pc = "thrown" THEN "thrown" ELSE @]
  /\ calls' = 2
  /\ pc' = "idle"
  /\ timestampManager' = NewManager
  /\ tableMigrations' = <<>>
  /\ refIndex' = 0
  /\ grouped' = <<>>
  /\ relationshipMigrations' = <<>>
  /\ result' = NoResult
  /\ UNCHANGED <<aside, diagram, options, zone>>

Next ==
  \/ CallAgain
  \/ CallThrows
  \/ Call
  \/ TimestampThrows
  \/ TimestampRetry
  \/ TableMigration
  \/ StartRelationships
  \/ GroupingThrows
  \/ SkipRelationships
  \/ GroupReference
  \/ ForeignKeyMigration
  \/ Return

Spec == Init /\ [][Next]_vars

\* --------------------------------------- generateForeignKeyDefinition alone
\* The values of a reference's updateConstraint and deleteConstraint: the
\* keys of mapConstraintAction's map, and one it does not list.
ConstraintActions == {"CASCADE", "SET_NULL", "RESTRICT", "NO_ACTION", "SET_DEFAULT", "NONE"}

\* References whose tables and fields groupRelationshipsByTable has found:
\* the names of the two tables and the two fields, and the two actions.
ResolvedReferences ==
  [tableName : {"posts"},
   localColumn : {"user_id", "user_uuid", "category_id", "categorie_id",
                  "staff_id", "author"},
   foreignTable : {"users", "categories", "staff"},
   foreignColumn : {"id", "uuid"},
   updateConstraint : ConstraintActions,
   deleteConstraint : ConstraintActions]

\* What groupRelationshipsByTable pushes for a reference it has resolved.
relationshipOf(r) ==
  [localColumn |-> r.localColumn,
   foreignTable |-> r.foreignTable,
   foreignColumn |-> r.foreignColumn,
   constraintName |-> r.tableName \o "_" \o r.localColumn \o "_foreign",
   onUpdate |-> mapConstraintAction(r.updateConstraint),
   onDelete |-> mapConstraintAction(r.deleteConstraint)]

\* No toLaravel call on a whole diagram is under way.
ExportIdle ==
  /\ diagram = NoDiagram
  /\ options = [baseTimestamp |-> Absent, includeForeignKeys |-> TRUE]
  /\ zone = "UTC"
  /\ clock = MidYear
  /\ pc = "off"
  /\ timestampManager = NewManager
  /\ tableMigrations = <<>>
  /\ refIndex = 0
  /\ grouped = <<>>
  /\ relationshipMigrations = <<>>
  /\ result = NoResult
  /\ calls = 0
  /\ first = NoResult

ForeignKeyInit ==
  /\ relationship \in ResolvedReferences
  /\ statement = <<>>
  /\ ColumnIdle
  /\ BridgeIdle
  /\ ExportIdle
  /\ RegistryIdle
  /\ ServiceIdle
  /\ CacheIdle
  /\ GistIdle

\* generateRelationshipMigrationContent's map: the statement of one relationship.
RenderForeignKey ==
  /\ relationship # <<>>
  /\ statement = <<>>
  /\ statement' = generateForeignKeyDefinition(relationshipOf(relationship))
  /\ UNCHANGED <<relationship, columnVars, bridgeVars, exportVars, registryVars,
                 serviceVars, cacheVars, gistVars>>

ForeignKeyNext == RenderForeignKey

ForeignKeySpec == ForeignKeyInit /\ [][ForeignKeyNext]_vars


\* ------------------------------------------------- one column on its way
\* String.prototype.toLowerCase and toUpperCase on the type names of the model.
toLowerCase(str) ==
  CASE str = "NUMERIC" -> "numeric"
    [] str = "INTEGER" -> "integer"
    [] OTHER -> str

toUpperCase(str) ==
  CASE str = "decimal" -> "DECIMAL"
    [] str = "numeric" -> "NUMERIC"
    [] str = "int" -> "INT"
    [] str = "integer" -> "INTEGER"
    [] str = "varchar" -> "VARCHAR"
    [] str = "mediumint" -> "MEDIUMINT"
    [] str = "uuid" -> "UUID"
    [] str = "jsonb" -> "JSONB"
    [] OTHER -> str

\* DatabaseService.mapDataType: the lower-cased type looked up in the map of
\* the database type (the keys of the sqlite map are upper-case), the
\* upper-cased type if it has no entry.
mapDataType(dbType, databaseType) ==
  LET normalizedType == toLowerCase(dbType)
  IN  CASE databaseType = "mysql" /\ normalizedType = "int" -> "INT"
        [] databaseType = "mysql" /\ normalizedType = "integer" -> "INT"
        [] databaseType = "mysql" /\ normalizedType = "varchar" -> "VARCHAR"
        [] databaseType = "mysql" /\ normalizedType = "decimal" -> "DECIMAL"
        [] databaseType = "postgres" /\ normalizedType = "integer" -> "INT"
        [] databaseType = "postgres" /\ normalizedType = "numeric" -> "DECIMAL"
        [] databaseType = "postgres" /\ normalizedType = "decimal" -> "DECIMAL"
        [] databaseType = "postgres" /\ normalizedType = "jsonb" -> "JSONB"
        [] databaseType = "postgres" /\ normalizedType = "uuid" -> "UUID"
        [] databaseType = "sqlite" /\ normalizedType = "INTEGER" -> "INT"
        [] databaseType = "sqlite" /\ normalizedType = "NUMERIC" -> "DECIMAL"
        [] OTHER -> toUpperCase(dbType)

\* A column of a connected database: what the catalog says of it.
SourceColumns ==
  { c \in [databaseType : {"mysql", "postgres", "sqlite"},
           name : {"price", "unit price"},
           dataType : {"decimal", "int", "varchar", "mediumint",
                       "numeric", "integer", "uuid", "jsonb",
                       "NUMERIC", "INTEGER"},
           precision : {10, 99},
           scale : {0, 2, 31},
           primaryKey : BOOLEAN,
           autoIncrement : BOOLEAN,
           columnDefault : {"", "0"},
           comment : {"", "in cents"}] :
      \/ c.databaseType = "mysql" /\ c.dataType \in {"decimal", "int", "varchar", "mediumint"}
      \/ c.databaseType = "postgres" /\ c.dataType \in {"numeric", "integer", "uuid", "jsonb"}
      \/ c.databaseType = "sqlite" /\ c.dataType \in {"NUMERIC", "INTEGER"} }

\* DatabaseService.getTableStructure: the field of one catalog row.  The
\* precision and the scale of the row are not read (mysql, sqlite) or read and
\* not kept (postgres); the comment is read from a MySQL catalog only.  A
\* null default and a null comment are "".
getTableStructure(c) ==
  [name |-> c.name,
   type |-> mapDataType(c.dataType, c.databaseType),
   nullable |-> ~c.primaryKey,
   default |-> IF c.databaseType = "postgres" /\ c.autoIncrement
               THEN "nextval" ELSE c.columnDefault,
   primary |-> c.primaryKey,
   autoIncrement |->
     IF c.databaseType = "sqlite"
     THEN toUpperCase(c.dataType) = "INTEGER" /\ c.primaryKey
     ELSE c.autoIncrement,
   unique |-> FALSE,
   comment |-> IF c.databaseType = "mysql" THEN c.comment ELSE ""]

\* /^[a-zA-Z_][a-zA-Z0-9_]*$/.test(name), on the names of the model.
IsIdentifier(name) == name \notin {"unit price", "order items"}

\* escapeTableName, escapeFieldName: the name, in double quotes unless it is
\* an identifier.
escapeName(name) == [quoted |-> ~IsIdentifier(name), text |-> name]

\* convertSchemaToDBML, the line of one field: the name, the type and, if
\* there is any constraint, the settings in brackets.
dbmlField(field) ==
  LET constraints ==
        (IF field.primary THEN <<"pk">> ELSE <<>>)
        \o (IF field.autoIncrement THEN <<"increment">> ELSE <<>>)
        \o (IF ~field.nullable THEN <<"not null">> ELSE <<>>)
        \o (IF field.unique THEN <<"unique">> ELSE <<>>)
  IN  [name |-> escapeName(field.name),
       type |-> field.type,
       settings |-> constraints,
       default |-> IF constraints # <<>> /\ field.default # ""
                   THEN <<field.default>> ELSE <<>>,
       note |-> IF constraints # <<>> /\ field.comment # ""
                THEN <<field.comment>> ELSE <<>>]

\* The parser's column of a field line.
parseField(line) ==
  [name |-> line.name.text,
   type_name |-> line.type,
   pk |-> \E i \in 1..Len(line.settings) : line.settings[i] = "pk",
   increment |-> \E i \in 1..Len(line.settings) : line.settings[i] = "increment",
   not_null |-> \E i \in 1..Len(line.settings) : line.settings[i] = "not null",
   dbdefault |-> line.default,
   note |-> line.note]

\* convertDBMLToDiagram, the field of one parsed column.
diagramField(id, parsed) ==
  [id |-> id,
   name |-> parsed.name,
   type |-> toUpperCase(parsed.type_name),
   size |-> Missing, precision |-> Missing, scale |-> Missing,
   default |-> IF parsed.dbdefault = <<>> THEN "" ELSE parsed.dbdefault[1],
   notNull |-> parsed.not_null,
   primary |-> parsed.pk,
   unique |-> parsed.pk,
   increment |-> parsed.increment,
   comment |-> IF parsed.note = <<>> THEN "" ELSE parsed.note[1],
   values |-> <<>>]

\* The fields a user of the editor gives a table.
EditorFields ==
  { EditorField(1, "price", type, size, precision, scale, primary, increment) :
      type \in {"DECIMAL", "INT", "VARCHAR", "GEOMETRY"},
      size \in {Missing, 100, 255},
      precision \in {Missing, 10, 99},
      scale \in {Missing, 0, 2, 31},
      primary \in BOOLEAN,
      increment \in BOOLEAN }

\* toLaravel(diagram) for a diagram of one table and no references, with the
\* default options: the table's migration, stamped with the time of the call.
toLaravelOneTable(table) ==
  LET manager == newTimestampManager(Absent, clock)
      timestamp == generateTimestamp(manager.baseTime, manager.currentOffset, zone)
      className == generateClassName(table.name, "create")
  IN  Success(sortByTimestamp(
        <<[type |-> "table",
           filename |-> generateFilename(timestamp, table.name, "create"),
           content |-> generateTableMigrationContent(table, className),
           table |-> table.name,
           timestamp |-> timestamp,
           className |-> className]>>))

ColumnInit ==
  /\ \/ cpc = "database" /\ col \in {[source |-> c, at |-> c] : c \in SourceColumns}
     \/ cpc = "diagram" /\ col \in {[source |-> f, at |-> f] : f \in EditorFields}
  /\ exported = <<>>
  /\ ForeignKeyIdle
  /\ BridgeIdle
  /\ ExportIdle
  /\ RegistryIdle
  /\ ServiceIdle
  /\ CacheIdle
  /\ GistIdle

\* getTableSchema reads the column from the catalog.
Introspect ==
  /\ cpc = "database"
  /\ col' = [col EXCEPT !.at = getTableStructure(col.at)]
  /\ cpc' = "schema"
  /\ UNCHANGED <<exported, foreignKeyVars, bridgeVars, exportVars, registryVars,
                 serviceVars, cacheVars, gistVars>>

\* convertSchemaToDBML writes the field's line.
SerializeField ==
  /\ cpc = "schema"
  /\ col' = [col EXCEPT !.at = dbmlField(col.at)]
  /\ cpc' = "dbml"
  /\ UNCHANGED <<exported, foreignKeyVars, bridgeVars, exportVars, registryVars,
                 serviceVars, cacheVars, gistVars>>

\* convertDBMLToDiagram: the parser reads the line and the field is built.
ImportField ==
  /\ cpc = "dbml"
  /\ col' = [col EXCEPT !.at = diagramField(1, parseField(col.at))]
  /\ cpc' = "diagram"
  /\ UNCHANGED <<exported, foreignKeyVars, bridgeVars, exportVars, registryVars,
                 serviceVars, cacheVars, gistVars>>

\* toLaravel on the diagram whose one table has the field.
ExportField ==
  /\ cpc = "diagram"
  /\ exported' = toLaravelOneTable([id |-> 1, name |-> "products", fields |-> <<col.at>>])
  /\ cpc' = "exported"
  /\ UNCHANGED <<col, foreignKeyVars, bridgeVars, exportVars, registryVars,
                 serviceVars, cacheVars, gistVars>>

ColumnNext ==
  \/ Introspect
  \/ SerializeField
  \/ ImportField
  \/ ExportField

ColumnSpec == ColumnInit /\ [][ColumnNext]_vars


\* ------------------------------------------------------- the DBML bridge
\* A row of the catalog of the connected (MySQL) database.
CatalogColumn(name, dataType, primaryKey) ==
  [databaseType |-> "mysql", name |-> name, dataType |-> dataType,
   precision |-> 10, scale |-> 0, primaryKey |-> primaryKey,
   autoIncrement |-> primaryKey, columnDefault |-> "", comment |-> ""]

\* The tables of the connected database, by name, and its foreign keys.
CatalogTables == {"users", "posts", "order items"}

CatalogColumns(tableName) ==
  CASE tableName = "users" ->
         <<CatalogColumn("id", "int", TRUE), CatalogColumn("email", "varchar", FALSE)>>
    [] tableName = "posts" ->
         <<CatalogColumn("id", "int", TRUE), CatalogColumn("user_id", "int", FALSE)>>
    [] tableName = "order items" ->
         <<CatalogColumn("id", "int", TRUE), CatalogColumn("post_id", "int", FALSE)>>

CatalogForeignKeys ==
  << [fromTable |-> "posts", fromColumn |-> "user_id",
      toTable |-> "users", toColumn |-> "id",
      constraintName |-> "posts_user_id_foreign",
      updateRule |-> "RESTRICT", deleteRule |-> "CASCADE"],
     [fromTable |-> "order items", fromColumn |-> "post_id",
      toTable |-> "posts", toColumn |-> "id",
      constraintName |-> "order_items_post_id_foreign",
      updateRule |-> "NO ACTION", deleteRule |-> "SET NULL"] >>

\* DatabaseService.getTableSchema: the structure of each table asked for, in
\* the order asked, and the foreign keys that start from one of them.
getTableSchema(tableNames) ==
  [tables |->
     [i \in 1..Len(tableNames) |->
        [name |-> tableNames[i],
         fields |-> [j \in 1..Len(CatalogColumns(tableNames[i])) |->
                       getTableStructure(CatalogColumns(tableNames[i])[j])]]],
   relationships |->
     SelectSeq(CatalogForeignKeys,
               LAMBDA fk : \E i \in 1..Len(tableNames) : tableNames[i] = fk.fromTable)]

\* The schemas a user of the import can get: one for every choice of tables.
Schemas == {getTableSchema(names) : names \in SeqsUpTo(CatalogTables, 3) \ {<<>>}}

\* rule.toLowerCase() of a referential rule.
ruleToLowerCase(rule) ==
  CASE rule = "CASCADE" -> "cascade"
    [] rule = "SET NULL" -> "set null"
    [] rule = "NO ACTION" -> "no action"
    [] rule = "SET DEFAULT" -> "set default"
    [] rule = "RESTRICT" -> "restrict"

\* determineCardinality: always many-to-one.
determineCardinality(rel) == ">"

\* convertSchemaToDBML, the Ref line of one relationship.
dbmlRef(rel) ==
  [from |-> [table |-> escapeName(rel.fromTable), field |-> escapeName(rel.fromColumn)],
   op |-> determineCardinality(rel),
   to |-> [table |-> escapeName(rel.toTable), field |-> escapeName(rel.toColumn)],
   settings |->
     (IF rel.updateRule # "RESTRICT"
      THEN <<[key |-> "update", value |-> ruleToLowerCase(rel.updateRule)]>> ELSE <<>>)
     \o (IF rel.deleteRule # "RESTRICT"
         THEN <<[key |-> "delete", value |-> ruleToLowerCase(rel.deleteRule)]>> ELSE <<>>)]

\* convertSchemaToDBML: a Table block per table, then a Ref line per
\* relationship.
convertSchemaToDBML(s) ==
  [tables |-> [i \in 1..Len(s.tables) |->
                 [name |-> escapeName(s.tables[i].name),
                  fields |-> [j \in 1..Len(s.tables[i].fields) |->
                                dbmlField(s.tables[i].fields[j])]]],
   refs |-> [i \in 1..Len(s.relationships) |-> dbmlRef(s.relationships[i])],
   enums |-> <<>>]

\* DBML written by hand: the tables users and posts, one Ref line between
\* columns that exist or do not, with each of the four relation signs, and
\* no Enum block or one.
RefLines ==
  [from : { [table |-> escapeName(t), field |-> escapeName(f)] :
              <<t, f>> \in {<<"posts", "user_id">>, <<"posts", "author">>,
                           <<"comments", "user_id">>} },
   op : {">", "<", "-", "<>"},
   to : { [table |-> escapeName(t), field |-> escapeName(f)] :
            <<t, f>> \in {<<"users", "id">>, <<"users", "uuid">>,
                         <<"accounts", "id">>} },
   settings : { <<>>,
                <<[key |-> "update", value |-> "cascade"]>>,
                <<[key |-> "delete", value |-> "set null"]>> }]

EnumBlocks ==
  { <<>>, <<[name |-> "post_status", values |-> <<"draft", "published", "archived">>]>> }

Texts ==
  { [tables |-> convertSchemaToDBML(getTableSchema(<<"users", "posts">>)).tables,
     refs |-> <<line>>,
     enums |-> blocks] : line \in RefLines, blocks \in EnumBlocks }

\* The relation of each endpoint of a Ref line: * for the many side.
relationsOf(op) ==
  CASE op = ">" -> <<"*", "1">>
    [] op = "<" -> <<"1", "*">>
    [] op = "-" -> <<"1", "1">>
    [] op = "<>" -> <<"*", "*">>

\* The value of a setting of a Ref line, as a sequence of at most one value.
settingOf(settings, key) ==
  LET hits == {i \in 1..Len(settings) : settings[i].key = key}
  IN  IF hits = {} THEN <<>> ELSE <<settings[CHOOSE i \in hits : TRUE].value>>

\* parser.parse(dbmlString, "dbmlv2"): the one schema of the text.
parse(text) ==
  [tables |-> [i \in 1..Len(text.tables) |->
                 [name |-> text.tables[i].name.text,
                  fields |-> [j \in 1..Len(text.tables[i].fields) |->
                                parseField(text.tables[i].fields[j])]]],
   refs |-> [i \in 1..Len(text.refs) |->
               [endpoints |->
                  <<[tableName |-> text.refs[i].from.table.text,
                     fieldNames |-> <<text.refs[i].from.field.text>>,
                     relation |-> relationsOf(text.refs[i].op)[1]],
                    [tableName |-> text.refs[i].to.table.text,
                     fieldNames |-> <<text.refs[i].to.field.text>>,
                     relation |-> relationsOf(text.refs[i].op)[2]]>>,
                onUpdate |-> settingOf(text.refs[i].settings, "update"),
                onDelete |-> settingOf(text.refs[i].settings, "delete")]],
   enums |-> [i \in 1..Len(text.enums) |->
                [name |-> text.enums[i].name,
                 values |-> [j \in 1..Len(text.enums[i].values) |->
                               [name |-> text.enums[i].values[j]]]]]]

\* Cardinality and Constraint of convertDBMLToDiagram.
ONE_TO_ONE == 0
ONE_TO_MANY == 1
MANY_TO_ONE == 2

\* Constraint[action.toUpperCase()] ?? Constraint.NONE
constraintOf(action) ==
  CASE action = "none" -> 0
    [] action = "cascade" -> 1
    [] action = "restrict" -> 2
    [] action = "set null" -> 3
    [] action = "set default" -> 4
    [] OTHER -> 0

\* tables.find(t => t.name === name), fields.find(f => f.name === name): the
\* first of that name, as a sequence of at most one.
findByName(items, name) ==
  LET hits == {i \in 1..Len(items) : items[i].name = name}
  IN  IF hits = {} THEN <<>>
      ELSE <<items[CHOOSE i \in hits : \A j \in hits : i <= j]>>

\* A ref none of whose four lookups makes convertDBMLToDiagram `continue`.
Found(ref, tables) ==
  LET startTable == findByName(tables, ref.endpoints[1].tableName)
      endTable == findByName(tables, ref.endpoints[2].tableName)
  IN  /\ startTable # <<>>
      /\ endTable # <<>>
      /\ findByName(endTable[1].fields, ref.endpoints[2].fieldNames[1]) # <<>>
      /\ findByName(startTable[1].fields, ref.endpoints[1].fieldNames[1]) # <<>>

\* A conversion whose default cardinality is one-to-one.
diagramRelationship_DefaultOneToOne(ref, tables, id) ==
  LET startTable == findByName(tables, ref.endpoints[1].tableName)[1]
      endTable == findByName(tables, ref.endpoints[2].tableName)[1]
      startRelation == ref.endpoints[1].relation
      endRelation == ref.endpoints[2].relation
  IN  [name |-> "fk_" \o ref.endpoints[1].tableName \o "_"
                \o ref.endpoints[1].fieldNames[1] \o "_" \o ref.endpoints[2].tableName,
       startTableId |-> startTable.id,
       endTableId |-> endTable.id,
       endFieldId |-> findByName(endTable.fields, ref.endpoints[2].fieldNames[1])[1].id,
       startFieldId |-> findByName(startTable.fields, ref.endpoints[1].fieldNames[1])[1].id,
       id |-> id,
       updateConstraint |-> IF ref.onDelete # <<>> THEN constraintOf(ref.onDelete[1]) ELSE 0,
       deleteConstraint |-> IF ref.onUpdate # <<>> THEN constraintOf(ref.onUpdate[1]) ELSE 0,
       cardinality |->
         IF startRelation = "*" /\ endRelation = "1" THEN MANY_TO_ONE
         ELSE IF startRelation = "1" /\ endRelation = "*" THEN ONE_TO_MANY
         ELSE ONE_TO_ONE]

\* convertDBMLToDiagram, the relationship of one ref whose tables and fields
\* were found: updateConstraint is read from ref.onDelete and deleteConstraint
\* from ref.onUpdate.
diagramRelationship(ref, tables, id) ==
  LET startTable == findByName(tables, ref.endpoints[1].tableName)[1]
      endTable == findByName(tables, ref.endpoints[2].tableName)[1]
      startRelation == ref.endpoints[1].relation
      endRelation == ref.endpoints[2].relation
  IN  [name |-> "fk_" \o ref.endpoints[1].tableName \o "_"
                \o ref.endpoints[1].fieldNames[1] \o "_" \o ref.endpoints[2].tableName,
       startTableId |-> startTable.id,
       endTableId |-> endTable.id,
       endFieldId |-> findByName(endTable.fields, ref.endpoints[2].fieldNames[1])[1].id,
       startFieldId |-> findByName(startTable.fields, ref.endpoints[1].fieldNames[1])[1].id,
       id |-> id,
       updateConstraint |-> IF ref.onDelete # <<>> THEN constraintOf(ref.onDelete[1]) ELSE 0,
       deleteConstraint |-> IF ref.onUpdate # <<>> THEN constraintOf(ref.onUpdate[1]) ELSE 0,
       cardinality |->
         IF startRelation = "*" /\ endRelation = "1" THEN MANY_TO_ONE
         ELSE IF startRelation = "1" /\ endRelation = "*" THEN ONE_TO_MANY
         ELSE IF startRelation = "1" /\ endRelation = "1" THEN ONE_TO_ONE
         ELSE MANY_TO_ONE]

\* The ids nanoid() hands out in one call: distinct, and different from one
\* call to another (seed).
NanoIdSeeds == {100, 200}

\* convertDBMLToDiagram, the enums loop: the name and the names of the values
\* of every enum of the parsed schema.
diagramEnums(parsed) ==
  [i \in 1..Len(parsed.enums) |->
     [name |-> parsed.enums[i].name,
      values |-> [j \in 1..Len(parsed.enums[i].values) |->
                    parsed.enums[i].values[j].name]]]

\* A conversion that numbers a relationship by the place of its ref.
convertDBMLToDiagram_IdByRefPlace(parsed, seed) ==
  LET tables == [i \in 1..Len(parsed.tables) |->
                   [id |-> seed + 10 * i,
                    name |-> parsed.tables[i].name,
                    fields |-> [j \in 1..Len(parsed.tables[i].fields) |->
                                  diagramField(seed + 10 * i + j,
                                               parsed.tables[i].fields[j])]]]
      places == SelectSeq([i \in 1..Len(parsed.refs) |-> i],
                          LAMBDA i : Found(parsed.refs[i], tables))
      enums == diagramEnums(parsed)
  IN  [database |-> "mysql",
       tables |-> tables,
       relationships |-> [i \in 1..Len(places) |->
                            diagramRelationship(parsed.refs[places[i]], tables,
                                                places[i] - 1)]]

\* convertDBMLToDiagram after the parse: the tables with new ids, a
\* relationship for every ref whose tables and fields are found, and the
\* enums, which the object returned has no key for.
convertDBMLToDiagram(parsed, seed) ==
  LET tables == [i \in 1..Len(parsed.tables) |->
                   [id |-> seed + 10 * i,
                    name |-> parsed.tables[i].name,
                    fields |-> [j \in 1..Len(parsed.tables[i].fields) |->
                                  diagramField(seed + 10 * i + j,
                                               parsed.tables[i].fields[j])]]]
      found == SelectSeq(parsed.refs, LAMBDA ref : Found(ref, tables))
      enums == diagramEnums(parsed)
  IN  [database |-> "mysql",
       tables |-> tables,
       relationships |-> [i \in 1..Len(found) |->
                            diagramRelationship(found[i], tables, i - 1)]]

BridgeInit ==
  /\ \/ bpc = "schema" /\ schema \in Schemas /\ dbml = <<>>
     \/ bpc = "dbml" /\ schema = <<>> /\ dbml \in Texts
  /\ ast = <<>>
  /\ imported = <<>>
  /\ ForeignKeyIdle
  /\ ColumnIdle
  /\ ExportIdle
  /\ RegistryIdle
  /\ ServiceIdle
  /\ CacheIdle
  /\ GistIdle

\* getSchema: convertSchemaToDBML(schema).
Serialize ==
  /\ bpc = "schema"
  /\ dbml' = convertSchemaToDBML(schema)
  /\ bpc' = "dbml"
  /\ UNCHANGED <<schema, ast, imported, foreignKeyVars, columnVars, exportVars, registryVars,
                 serviceVars, cacheVars, gistVars>>

\* A Ref line names a table or a field the text does not declare.
Unresolved(text) ==
  \E i \in 1..Len(text.refs) : ~Found(parse(text).refs[i], parse(text).tables)

\* convertDBMLToDiagram: the parser returns the schema of the text.
Parse ==
  /\ bpc = "dbml"
  /\ ast' = parse(dbml)
  /\ bpc' = "parsed"
  /\ UNCHANGED <<schema, dbml, imported, foreignKeyVars, columnVars, exportVars, registryVars,
                 serviceVars, cacheVars, gistVars>>

\* convertDBMLToDiagram: the parser throws on a Ref line it cannot resolve,
\* and so does convertDBMLToDiagram.
ParseRejects ==
  /\ bpc = "dbml"
  /\ Unresolved(dbml)
  /\ bpc' = "thrown"
  /\ UNCHANGED <<schema, dbml, ast, imported, foreignKeyVars, columnVars, exportVars, registryVars,
                 serviceVars, cacheVars, gistVars>>

\* convertDBMLToDiagram: the loops over the parsed schema, and the return.
Convert ==
  /\ bpc = "parsed"
  /\ \E seed \in NanoIdSeeds : imported' = convertDBMLToDiagram(ast, seed)
  /\ bpc' = "diagram"
  /\ UNCHANGED <<schema, dbml, ast, foreignKeyVars, columnVars, exportVars, registryVars,
                 serviceVars, cacheVars, gistVars>>

BridgeNext ==
  \/ Serialize
  \/ Parse
  \/ ParseRejects
  \/ Convert

BridgeSpec == BridgeInit /\ [][BridgeNext]_vars


\* ------------------------------------------------- the connection registry
\* How many connections the server opens, and how far its clock runs.
MaxConnections == 2
MaxWallTime == 60

\* cleanupConnections' maxAge, in minutes.
maxAge == 30

\* `let connectionId = null`, and a session without connectionId.
NoConnection == 0

\* The requests a browser has in flight at once.
Requests == {"r1", "r2"}

\* The routes of routes/database.js that are given the connection parameters
\* with every request.  Of the routes that go by the session the model has
\* connect, schema and disconnect; databases, tables and generate-dbml use
\* the connection of the session as schema does.
StatelessEndpoints == {"test-connection", "get-databases", "get-tables", "import-schema"}

\* A request: its route, where its handler is (idle, connecting, querying,
\* ending, done), the connection id its handler holds and the status it sent.
Request(endpoint, at, connectionId, status) ==
  [endpoint |-> endpoint, pc |-> at, connectionId |-> connectionId, status |-> status]

NoRequest == Request("", "idle", NoConnection, "")

\* DatabaseService.getConnection: the entry of the id, if there is one.
getConnection(registry, connectionId) ==
  IF connectionId \in DOMAIN registry THEN <<registry[connectionId]>> ELSE <<>>

\* this.connections.set(connectionId, {..., createdAt: new Date()})
connectionsSet(registry, connectionId, createdAt) ==
  [id \in DOMAIN registry \cup {connectionId} |->
     IF id = connectionId THEN [createdAt |-> createdAt] ELSE registry[id]]

\* this.connections.delete(connectionId)
connectionsDelete(registry, connectionId) ==
  [id \in DOMAIN registry \ {connectionId} |-> registry[id]]

\* DatabaseService.cleanupConnections: the ids it closes at time t.  No timer
\* and no route of the server calls it.
cleanupConnections(registry, t) ==
  {id \in DOMAIN registry : t - registry[id].createdAt > maxAge}

\* closeConnection up to its await: it returns at once if the registry has no
\* entry for the id, and waits for connection.end() otherwise.
closeConnection(request, registry) ==
  IF getConnection(registry, request.connectionId) = <<>>
  THEN [request EXCEPT !.pc = "done"]
  ELSE [request EXCEPT !.pc = "ending"]

RegistryInit ==
  /\ server = "running"
  /\ connections = <<>>
  /\ opened = {}
  /\ nextId = 0
  /\ session = NoConnection
  /\ requests = [r \in Requests |-> NoRequest]
  /\ wallTime = 0
  /\ ForeignKeyIdle
  /\ ColumnIdle
  /\ BridgeIdle
  /\ ExportIdle
  /\ ServiceIdle
  /\ CacheIdle
  /\ GistIdle

\* The handlers that are waiting for createConnection.
Connecting == {q \in Requests : requests[q].pc = "connecting"}

\* A request arrives at a route that is given the connection parameters
\* (the stateless routes and connect): 400 for a body without type or
\* username, createConnection otherwise.
ReceiveWithParameters(r) ==
  /\ server = "running"
  /\ requests[r].pc = "idle"
  /\ \E endpoint \in StatelessEndpoints \cup {"connect"}, valid \in BOOLEAN :
       IF valid
       THEN /\ nextId + Cardinality(Connecting) < MaxConnections
            /\ requests' = [requests EXCEPT
                 ![r] = Request(endpoint, "connecting", NoConnection, "")]
       ELSE requests' = [requests EXCEPT
              ![r] = Request(endpoint, "done", NoConnection, "400")]
  /\ UNCHANGED <<server, connections, opened, nextId, session, wallTime,
                 foreignKeyVars, columnVars, bridgeVars, exportVars,
                 serviceVars, cacheVars, gistVars>>

\* getSchema up to its await: 400 without a connection id in the session or
\* without tables, 500 if the registry has no entry for the id (getTableSchema
\* throws), the catalog queries otherwise.
ReceiveGetSchema(r) ==
  /\ server = "running"
  /\ requests[r].pc = "idle"
  /\ \E valid \in BOOLEAN :
       requests' = [requests EXCEPT ![r] =
         IF session = NoConnection \/ ~valid
         THEN Request("schema", "done", NoConnection, "400")
         ELSE IF getConnection(connections, session) = <<>>
         THEN Request("schema", "done", session, "500")
         ELSE Request("schema", "querying", session, "")]
  /\ UNCHANGED <<server, connections, opened, nextId, session, wallTime,
                 foreignKeyVars, columnVars, bridgeVars, exportVars,
                 serviceVars, cacheVars, gistVars>>

\* disconnect up to its await: nothing to do without a connection id in the
\* session; closeConnection otherwise, and the id is deleted from the session
\* at once if closeConnection had nothing to wait for.
ReceiveDisconnect(r) ==
  /\ server = "running"
  /\ requests[r].pc = "idle"
  /\ LET closing == closeConnection(Request("disconnect", "idle", session, "200"),
                                    connections)
     IN  IF session = NoConnection
         THEN /\ requests' = [requests EXCEPT
                   ![r] = Request("disconnect", "done", NoConnection, "200")]
              /\ UNCHANGED session
         ELSE /\ requests' = [requests EXCEPT ![r] = closing]
              /\ session' = IF closing.pc = "done" THEN NoConnection ELSE session
  /\ UNCHANGED <<server, connections, opened, nextId, wallTime,
                 foreignKeyVars, columnVars, bridgeVars, exportVars,
                 serviceVars, cacheVars, gistVars>>

\* createConnection settles.  It throws (the driver cannot connect: nothing
\* is put into the registry, the handler answers 500 and has no id to clean
\* up) or it returns the id of a new entry: connect stores it in the session
\* and answers, testConnection closes it, the other stateless handlers go on
\* to their query.  (The id of a connection that failed is never seen again.)
CreateConnection(r) ==
  /\ requests[r].pc = "connecting"
  /\ \/ /\ requests' = [requests EXCEPT ![r] =
             Request(requests[r].endpoint, "done", NoConnection, "500")]
        /\ UNCHANGED <<connections, opened, nextId, session>>
     \/ LET connectionId == nextId + 1
            endpoint == requests[r].endpoint
            registry == connectionsSet(connections, connectionId, wallTime)
        IN  /\ connections' = registry
            /\ opened' = opened \cup {connectionId}
            /\ nextId' = connectionId
            /\ session' = IF endpoint = "connect" THEN connectionId ELSE session
            /\ requests' = [requests EXCEPT ![r] =
                 CASE endpoint = "connect" ->
                        Request(endpoint, "done", connectionId, "200")
                   [] endpoint = "test-connection" ->
                        closeConnection(Request(endpoint, "connecting", connectionId, "200"),
                                        registry)
                   [] OTHER -> Request(endpoint, "querying", connectionId, "")]
  /\ UNCHANGED <<server, wallTime, foreignKeyVars, columnVars, bridgeVars, exportVars,
                 serviceVars, cacheVars, gistVars>>

\* A stateless handler without its finally block.
Query_WithoutFinally(r) ==
  /\ requests[r].pc = "querying"
  /\ \E resolved \in BOOLEAN :
       /\ resolved => requests[r].connectionId \in opened
       /\ LET answered == [requests[r] EXCEPT
                             !.status = IF resolved THEN "200" ELSE "500"]
          IN  requests' = [requests EXCEPT ![r] =
                IF answered.endpoint = "schema" \/ ~resolved
                THEN [answered EXCEPT !.pc = "done"]
                ELSE closeConnection(answered, connections)]
  /\ UNCHANGED <<server, connections, opened, nextId, session, wallTime,
                 foreignKeyVars, columnVars, bridgeVars, exportVars,
                 serviceVars, cacheVars, gistVars>>

\* The queries of listDatabases, listTables or getTableSchema settle: they
\* resolve (on an open connection only) or throw, and the handler answers 200
\* or 500.  getSchema is done; a stateless handler runs its finally block,
\* closeConnection on the id it holds.
Query(r) ==
  /\ requests[r].pc = "querying"
  /\ \E resolved \in BOOLEAN :
       /\ resolved => requests[r].connectionId \in opened
       /\ LET answered == [requests[r] EXCEPT
                             !.status = IF resolved THEN "200" ELSE "500"]
          IN  requests' = [requests EXCEPT ![r] =
                IF answered.endpoint = "schema"
                THEN [answered EXCEPT !.pc = "done"]
                ELSE closeConnection(answered, connections)]
  /\ UNCHANGED <<server, connections, opened, nextId, session, wallTime,
                 foreignKeyVars, columnVars, bridgeVars, exportVars,
                 serviceVars, cacheVars, gistVars>>

\* closeConnection after its await: connection.end() has settled (an error
\* is logged and dropped) and the entry is deleted; disconnect then deletes
\* the id from the session.
EndClose(r) ==
  /\ requests[r].pc = "ending"
  /\ opened' = opened \ {requests[r].connectionId}
  /\ connections' = connectionsDelete(connections, requests[r].connectionId)
  /\ session' = IF requests[r].endpoint = "disconnect" THEN NoConnection ELSE session
  /\ requests' = [requests EXCEPT ![r].pc = "done"]
  /\ UNCHANGED <<server, nextId, wallTime,
                 foreignKeyVars, columnVars, bridgeVars, exportVars,
                 serviceVars, cacheVars, gistVars>>

\* The response has gone out and the handler has returned.
Respond(r) ==
  /\ requests[r].pc = "done"
  /\ requests' = [requests EXCEPT ![r] = NoRequest]
  /\ UNCHANGED <<server, connections, opened, nextId, session, wallTime,
                 foreignKeyVars, columnVars, bridgeVars, exportVars,
                 serviceVars, cacheVars, gistVars>>

\* Time passes.
Tick ==
  /\ server = "running"
  /\ wallTime < MaxWallTime
  /\ wallTime' = wallTime + maxAge
  /\ UNCHANGED <<server, connections, opened, nextId, session, requests,
                 foreignKeyVars, columnVars, bridgeVars, exportVars,
                 serviceVars, cacheVars, gistVars>>

\* What the server does by itself once a request has arrived.
Handle(r) ==
  \/ CreateConnection(r)
  \/ Query(r)
  \/ EndClose(r)
  \/ Respond(r)

RegistryNext ==
  \/ \E r \in Requests : ReceiveWithParameters(r)
  \/ \E r \in Requests : ReceiveGetSchema(r)
  \/ \E r \in Requests : ReceiveDisconnect(r)
  \/ \E r \in Requests : Handle(r)
  \/ Tick

RegistrySpec == RegistryInit /\ [][RegistryNext]_vars

\* The server under its scheduling: the event loop runs every continuation
\* that is ready, and time passes; no client is bound to send a request.
RegistryFairSpec ==
  /\ RegistrySpec
  /\ \A r \in Requests : WF_vars(Handle(r))
  /\ WF_vars(Tick)

\* ------------------------------------------------------ DatabaseService alone
\* How many driver connections the model opens.
MaxHandles == 3

\* The database types and the databases of the model: postgres, whose close
\* is awaited and whose listTables may change database, and sqlite, whose
\* close is not awaited.  mysql closes as postgres does and lists tables as
\* postgres does for the entry's own database.
DatabaseTypes == {"postgres", "sqlite"}
Databases == {"shop", "blog"}

\* No getTableSchema or listTables call is in flight.  A call in flight has
\* the id it was given, the connection it destructured from the entry, the
\* database asked for, the queries it has left, whether it has ended its
\* connection itself and whether no other call has run since it began.
NoInvocation ==
  [op |-> "", pc |-> "idle", connectionId |-> NoConnection, connection |-> NoConnection,
   database |-> "", left |-> 0, ended |-> FALSE, alone |-> TRUE]

NoCall == [op |-> "", driverThrew |-> FALSE]

\* Another call runs while the call in flight waits.
Disturbed(inv) == IF inv.pc = "idle" THEN inv ELSE [inv EXCEPT !.alone = FALSE]

\* The entries of ids whose closeConnection runs without an await: the sqlite
\* branch calls connection.close() and falls through to the finally block.
ClosedAtOnce(ids) == {id \in ids : registered[id].type = "sqlite"}

\* connection.end() and connection.close() begin: the driver connections of
\* the ids take no more queries.
endAll(hs, ids, by) ==
  [h \in DOMAIN hs |->
     IF hs[h] = "open" /\ \E id \in ids : registered[id].connection = h
     THEN by ELSE hs[h]]

ServiceInit ==
  /\ registered = <<>>
  /\ handles = <<>>
  /\ invocation = NoInvocation
  /\ pendingCloses = {}
  /\ ledger = [returned |-> {}, removed |-> {}]
  /\ lastCall = NoCall
  /\ serviceTime = 0
  /\ ForeignKeyIdle
  /\ ColumnIdle
  /\ BridgeIdle
  /\ ExportIdle
  /\ RegistryIdle
  /\ CacheIdle
  /\ GistIdle

\* createConnection(config): the driver connects and the entry is set under
\* a new id, which is returned; or the driver throws, what was opened is
\* closed, nothing is set and the error is thrown on.
CallCreateConnection ==
  /\ Cardinality(ledger.returned) < MaxConnections
  /\ Len(handles) < MaxHandles
  /\ \E type \in DatabaseTypes, connected \in BOOLEAN :
       LET connectionId == Cardinality(ledger.returned) + 1
           database == "shop"
       IN  IF connected
           THEN /\ handles' = Append(handles, "open")
                /\ registered' =
                     [id \in DOMAIN registered \cup {connectionId} |->
                        IF id = connectionId
                        THEN [connection |-> Len(handles) + 1, type |-> type,
                              database |-> database, createdAt |-> serviceTime]
                        ELSE registered[id]]
                /\ ledger' = [ledger EXCEPT !.returned = @ \cup {connectionId}]
                /\ lastCall' = [op |-> "createConnection", driverThrew |-> FALSE]
           ELSE /\ lastCall' = [op |-> "createConnection", driverThrew |-> TRUE]
                /\ UNCHANGED <<handles, registered, ledger>>
  /\ invocation' = Disturbed(invocation)
  /\ UNCHANGED <<pendingCloses, serviceTime, foreignKeyVars, columnVars,
                 bridgeVars, exportVars, registryVars, cacheVars, gistVars>>

\* closeConnection(connectionId) up to its await: it returns at once for an
\* id the map does not have; for an sqlite entry it closes and deletes at
\* once; otherwise it calls connection.end() and waits.
CallCloseConnection ==
  /\ \E connectionId \in 1..MaxConnections, driverThrew \in BOOLEAN :
       IF connectionId \notin DOMAIN registered
       THEN /\ ~driverThrew
            /\ lastCall' = [op |-> "closeConnection", driverThrew |-> FALSE]
            /\ UNCHANGED <<registered, handles, pendingCloses, ledger>>
       ELSE /\ handles' = endAll(handles, {connectionId}, "ended")
            /\ IF ClosedAtOnce({connectionId}) # {}
               THEN /\ registered' = connectionsDelete(registered, connectionId)
                    /\ ledger' = [ledger EXCEPT !.removed = @ \cup {connectionId}]
                    /\ lastCall' = [op |-> "closeConnection", driverThrew |-> driverThrew]
                    /\ UNCHANGED pendingCloses
               ELSE /\ ~driverThrew
                    /\ pendingCloses' = pendingCloses \cup {connectionId}
                    /\ UNCHANGED <<registered, ledger, lastCall>>
  /\ invocation' = Disturbed(invocation)
  /\ UNCHANGED <<serviceTime, foreignKeyVars, columnVars,
                 bridgeVars, exportVars, registryVars, cacheVars, gistVars>>

\* A closeConnection that keeps the entry when the driver's end() throws.
CloseSettles_KeepsOnThrow ==
  /\ \E connectionId \in pendingCloses, driverThrew \in BOOLEAN :
       /\ registered' = IF driverThrew THEN registered
                        ELSE connectionsDelete(registered, connectionId)
       /\ pendingCloses' = pendingCloses \ {connectionId}
       /\ ledger' = [ledger EXCEPT !.removed = @ \cup {connectionId}]
       /\ lastCall' = [op |-> "closeConnection", driverThrew |-> driverThrew]
  /\ invocation' = Disturbed(invocation)
  /\ UNCHANGED <<handles, serviceTime, foreignKeyVars, columnVars,
                 bridgeVars, exportVars, registryVars, cacheVars, gistVars>>

\* closeConnection after its await: connection.end() has resolved or has
\* thrown (the error is logged), and the finally block deletes the entry.
CloseSettles ==
  /\ \E connectionId \in pendingCloses, driverThrew \in BOOLEAN :
       /\ registered' = connectionsDelete(registered, connectionId)
       /\ pendingCloses' = pendingCloses \ {connectionId}
       /\ ledger' = [ledger EXCEPT !.removed = @ \cup {connectionId}]
       /\ lastCall' = [op |-> "closeConnection", driverThrew |-> driverThrew]
  /\ invocation' = Disturbed(invocation)
  /\ UNCHANGED <<handles, serviceTime, foreignKeyVars, columnVars,
                 bridgeVars, exportVars, registryVars, cacheVars, gistVars>>

\* cleanupConnections(): closeConnection, not awaited, on every entry older
\* than maxAge, in use or not.
CallCleanupConnections ==
  /\ LET old == cleanupConnections(registered, serviceTime)
     IN  /\ old # {}
         /\ handles' = endAll(handles, old, "swept")
         /\ registered' = [id \in DOMAIN registered \ ClosedAtOnce(old) |-> registered[id]]
         /\ ledger' = [ledger EXCEPT !.removed = @ \cup old]
         /\ pendingCloses' = pendingCloses \cup (old \ ClosedAtOnce(old))
         /\ lastCall' = [op |-> "cleanupConnections", driverThrew |-> FALSE]
  /\ invocation' = Disturbed(invocation)
  /\ UNCHANGED <<serviceTime, foreignKeyVars, columnVars,
                 bridgeVars, exportVars, registryVars, cacheVars, gistVars>>

\* getTableSchema(connectionId, database, tableNames) up to its first await:
\* it throws for an id the map does not have, and otherwise destructures the
\* connection from the entry and queries it, for the structure of the tables
\* and then for their relationships.
CallGetTableSchema ==
  /\ invocation = NoInvocation
  /\ \E connectionId \in 1..MaxConnections, database \in Databases :
       IF getConnection(registered, connectionId) = <<>>
       THEN /\ UNCHANGED lastCall
            /\ UNCHANGED invocation
       ELSE /\ invocation' =
                 [op |-> "getTableSchema", pc |-> "query", connectionId |-> connectionId,
                  connection |-> registered[connectionId].connection,
                  database |-> database, left |-> 2, ended |-> FALSE,
                  alone |-> pendingCloses = {}]
            /\ UNCHANGED lastCall
  /\ UNCHANGED <<registered, handles, pendingCloses, ledger, serviceTime,
                 foreignKeyVars, columnVars, bridgeVars, exportVars, registryVars,
                 cacheVars, gistVars>>

\* listTables(connectionId, database) up to its first await: as above; for
\* postgres and a database other than the entry's it first calls
\* connection.end() on the connection it destructured.
CallListTables ==
  /\ invocation = NoInvocation
  /\ \E connectionId \in 1..MaxConnections, database \in Databases :
       IF getConnection(registered, connectionId) = <<>>
       THEN /\ UNCHANGED lastCall
            /\ UNCHANGED <<invocation, handles>>
       ELSE LET conn == registered[connectionId]
                switch == conn.type = "postgres" /\ database # conn.database
            IN  /\ switch => Len(handles) < MaxHandles
                /\ invocation' =
                     [op |-> "listTables", pc |-> IF switch THEN "end" ELSE "query",
                      connectionId |-> connectionId, connection |-> conn.connection,
                      database |-> database, left |-> 1, ended |-> switch,
                      alone |-> pendingCloses = {}]
                /\ handles' = IF switch
                              THEN endAll(handles, {connectionId}, "ended")
                              ELSE handles
                /\ UNCHANGED lastCall
  /\ UNCHANGED <<registered, pendingCloses, ledger, serviceTime,
                 foreignKeyVars, columnVars, bridgeVars, exportVars, registryVars,
                 cacheVars, gistVars>>

\* listTables, postgres: connection.end() settles; if it throws, so does
\* listTables, and otherwise a new Client is made and connect() awaited.
SwitchEnds ==
  /\ invocation.pc = "end"
  /\ \E ended \in BOOLEAN :
       IF ended
       THEN /\ invocation' = [invocation EXCEPT !.pc = "connect"]
            /\ UNCHANGED lastCall
       ELSE /\ invocation' = NoInvocation
            /\ UNCHANGED lastCall
  /\ UNCHANGED <<registered, handles, pendingCloses, ledger, serviceTime,
                 foreignKeyVars, columnVars, bridgeVars, exportVars, registryVars,
                 cacheVars, gistVars>>

\* listTables, postgres: newConn.connect() settles; if it throws, so does
\* listTables, and otherwise the entry object gets the new connection and the
\* new database, and the query follows.
SwitchConnects ==
  /\ invocation.pc = "connect"
  /\ \E connected \in BOOLEAN :
       IF connected
       THEN /\ handles' = Append(handles, "open")
            /\ registered' =
                 IF invocation.connectionId \in DOMAIN registered
                 THEN [registered EXCEPT
                         ![invocation.connectionId].connection = Len(handles) + 1,
                         ![invocation.connectionId].database = invocation.database]
                 ELSE registered
            /\ invocation' = [invocation EXCEPT !.pc = "query"]
            /\ UNCHANGED lastCall
       ELSE /\ invocation' = NoInvocation
            /\ UNCHANGED lastCall
            /\ UNCHANGED <<handles, registered>>
  /\ UNCHANGED <<pendingCloses, ledger, serviceTime,
                 foreignKeyVars, columnVars, bridgeVars, exportVars, registryVars,
                 cacheVars, gistVars>>

\* The call in flight issues its next query on the connection it
\* destructured when it began; the query resolves, on an open connection
\* only, or throws, and then so does the call.
IssueQuery ==
  /\ invocation.pc = "query"
  /\ LET live == handles[invocation.connection] = "open"
     IN  \E resolved \in BOOLEAN :
           /\ resolved => live
           /\ invocation' = IF resolved /\ invocation.left > 1
                            THEN [invocation EXCEPT !.left = @ - 1]
                            ELSE NoInvocation
  /\ UNCHANGED <<registered, handles, pendingCloses, ledger, lastCall, serviceTime,
                 foreignKeyVars, columnVars, bridgeVars, exportVars, registryVars,
                 cacheVars, gistVars>>

\* Time passes.
ServiceTick ==
  /\ invocation # <<>>
  /\ serviceTime + maxAge + 1 <= MaxWallTime
  /\ serviceTime' = serviceTime + maxAge + 1
  /\ UNCHANGED <<registered, handles, invocation, pendingCloses, ledger, lastCall,
                 foreignKeyVars, columnVars, bridgeVars, exportVars,
                 registryVars, cacheVars, gistVars>>

ServiceNext ==
  \/ CallCreateConnection
  \/ CallCloseConnection
  \/ CloseSettles
  \/ CallCleanupConnections
  \/ CallGetTableSchema
  \/ CallListTables
  \/ SwitchEnds
  \/ SwitchConnects
  \/ IssueQuery
  \/ ServiceTick

ServiceSpec == ServiceInit /\ [][ServiceNext]_vars

\* ------------------------------------------- the session's schema and DBML
\* How many tables a request body names.
MaxSelected == 2

\* The tables the model selects from, in the order of Array.prototype.sort.
SelectableTables == <<"posts", "users">>

\* The bodies' tables arrays.
Selections == UNION { [1..n -> {"posts", "users"}] : n \in 1..MaxSelected }

\* Where a table name stands in the order of Array.prototype.sort.
Place(name) == CHOOSE i \in DOMAIN SelectableTables : SelectableTables[i] = name

\* tables.sort()
RECURSIVE sort(_)
sort(tables) ==
  IF Len(tables) <= 1 THEN tables
  ELSE LET least == CHOOSE i \in DOMAIN tables :
                      \A j \in DOMAIN tables :
                        \/ Place(tables[i]) < Place(tables[j])
                        \/ Place(tables[i]) = Place(tables[j]) /\ i <= j
       IN  <<tables[least]>> \o
           sort([k \in 1..(Len(tables) - 1) |->
                   IF k < least THEN tables[k] ELSE tables[k + 1]])

\* The schema getTableSchema extracts: of which tables, of which database,
\* and through which connection.
TableSchema(connectionId, database, tables) ==
  [from |-> connectionId, database |-> database, tables |-> tables]

\* What generateDBML serialized: the schema, and the connection the session
\* had then.
Serialized(tableSchema, connectionId) ==
  [schema |-> tableSchema, connectionId |-> connectionId]

SessionInit ==
  /\ server = "running"
  /\ connections = <<>>
  /\ opened = {}
  /\ nextId = 0
  /\ session = NoConnection
  /\ requests = [r \in Requests |-> NoRequest]
  /\ wallTime = 0
  /\ lastSchema = <<>>
  /\ served = <<>>
  /\ ForeignKeyIdle
  /\ ColumnIdle
  /\ BridgeIdle
  /\ ExportIdle
  /\ ServiceIdle
  /\ GistIdle

\* POST /connect, from body to answer: createConnection throws (500) or
\* returns the id of a new entry, which is written to the session.
Connect ==
  /\ server = "running"
  /\ nextId < MaxConnections
  /\ \E connected \in BOOLEAN :
       IF connected
       THEN /\ connections' = connectionsSet(connections, nextId + 1, wallTime)
            /\ opened' = opened \cup {nextId + 1}
            /\ nextId' = nextId + 1
            /\ session' = nextId + 1
       ELSE UNCHANGED <<connections, opened, nextId, session>>
  /\ UNCHANGED <<server, requests, wallTime, lastSchema, served, foreignKeyVars,
                 columnVars, bridgeVars, exportVars, serviceVars, gistVars>>

\* POST /schema: 400 without a connection in the session, 500 when
\* getTableSchema throws, and otherwise the schema is answered and kept in
\* the session with its database and tables.
GetSchema ==
  /\ server = "running"
  /\ \E database \in Databases, tables \in Selections, extracted \in BOOLEAN :
       IF /\ session # NoConnection
          /\ getConnection(connections, session) # <<>>
          /\ extracted
       THEN lastSchema' = TableSchema(session, database, tables)
       ELSE UNCHANGED lastSchema
  /\ UNCHANGED <<registryVars, served, foreignKeyVars, columnVars, bridgeVars,
                 exportVars, serviceVars, gistVars>>

\* POST /generate-dbml: 400 without a connection in the session; the schema
\* kept in the session is serialized if its database is the body's and its
\* tables, sorted, are the body's, sorted (both arrays are sorted in place);
\* otherwise the schema is extracted through the session's connection.
GenerateDBML ==
  /\ server = "running"
  /\ session # NoConnection
  /\ \E database \in Databases, tables \in Selections, extracted \in BOOLEAN :
       IF lastSchema # <<>> /\ lastSchema.database = database
       THEN IF sort(lastSchema.tables) = sort(tables)
            THEN /\ lastSchema' = [lastSchema EXCEPT !.tables = sort(@)]
                 /\ served' = Serialized(lastSchema', session)
            ELSE /\ lastSchema' = [lastSchema EXCEPT !.tables = sort(@)]
                 /\ IF getConnection(connections, session) # <<>> /\ extracted
                    THEN served' = Serialized(TableSchema(session, database, sort(tables)),
                                              session)
                    ELSE UNCHANGED served
       ELSE /\ UNCHANGED lastSchema
            /\ IF getConnection(connections, session) # <<>> /\ extracted
               THEN served' = Serialized(TableSchema(session, database, tables), session)
               ELSE UNCHANGED served
  /\ UNCHANGED <<registryVars, foreignKeyVars, columnVars, bridgeVars,
                 exportVars, serviceVars, gistVars>>

\* POST /import: the schema is extracted through the session's connection
\* (500 if that throws); then, unless options.closeConnection is false, the
\* connection is closed and the session's connectionId deleted.  The schema
\* kept in the session stays.
ImportToApp ==
  /\ server = "running"
  /\ session # NoConnection
  /\ getConnection(connections, session) # <<>>
  /\ \E close \in BOOLEAN :
       IF close
       THEN /\ connections' = connectionsDelete(connections, session)
            /\ session' = NoConnection
       ELSE UNCHANGED <<connections, session>>
  /\ UNCHANGED <<server, opened, nextId, requests, wallTime, lastSchema, served,
                 foreignKeyVars, columnVars, bridgeVars, exportVars, serviceVars,
                 gistVars>>

\* POST /disconnect: with a connection in the session it is closed, and
\* connectionId, lastSchema and lastDBML are deleted from the session.
Disconnect ==
  /\ server = "running"
  /\ session # NoConnection
  /\ connections' = connectionsDelete(connections, session)
  /\ session' = NoConnection
  /\ lastSchema' = <<>>
  /\ UNCHANGED <<server, opened, nextId, requests, wallTime, served,
                 foreignKeyVars, columnVars, bridgeVars, exportVars, serviceVars,
                 gistVars>>

SessionNext ==
  \/ Connect
  \/ GetSchema
  \/ GenerateDBML
  \/ ImportToApp
  \/ Disconnect

SessionSpec == SessionInit /\ [][SessionNext]_vars

\* ------------------------------------------------------------ GistsService
\* The patch requests the model has in flight on the one gist.
PatchCalls == {"p1", "p2"}

\* A body leaves filename or content out (undefined), which is falsy as the
\* empty string is.
undefined == ""

\* The bodies of the patch requests.
Bodies == [filename : {undefined, "a.json", "b.json"}, content : {undefined, "{}", "[]"}]

\* a || b
orElse(a, b) == IF a = undefined THEN b ELSE a

\* No patch call: nothing asked, nothing read, no answer.
NoPatch == [pc |-> "idle", data |-> <<>>, gistData |-> <<>>, status |-> ""]

GistInit ==
  /\ gist = <<>>
  /\ patches = [p \in PatchCalls |-> NoPatch]
  /\ ForeignKeyIdle
  /\ ColumnIdle
  /\ BridgeIdle
  /\ ExportIdle
  /\ RegistryIdle
  /\ ServiceIdle
  /\ CacheIdle

\* GistsService.create(data): the file of the gist is written.
Create ==
  /\ patches # <<>>
  /\ gist = <<>>
  /\ gist' = [filename |-> "share.json", content |-> "{}"]
  /\ UNCHANGED <<patches, foreignKeyVars, columnVars, bridgeVars, exportVars,
                 registryVars, serviceVars, cacheVars>>

\* PATCH /gists/:id arrives: the controller calls GistsService.patch with the
\* body's filename and content, and patch awaits get.
PatchBegins(p) ==
  /\ patches[p].pc = "idle"
  /\ \E data \in Bodies :
       patches' = [patches EXCEPT ![p] = [NoPatch EXCEPT !.pc = "reading", !.data = data]]
  /\ UNCHANGED <<gist, foreignKeyVars, columnVars, bridgeVars, exportVars,
                 registryVars, serviceVars, cacheVars>>

\* get settles: 'Gist not found' without a file (404); otherwise the gist
\* read takes the body's filename and content where the body has them, and
\* patch awaits writeFile.
PatchReads(p) ==
  /\ patches[p].pc = "reading"
  /\ patches' = [patches EXCEPT ![p] =
       IF gist = <<>>
       THEN [@ EXCEPT !.pc = "done", !.status = "404"]
       ELSE [@ EXCEPT !.pc = "writing",
                      !.gistData =
                        [filename |-> orElse(patches[p].data.filename, gist.filename),
                         content |-> orElse(patches[p].data.content, gist.content)]]]
  /\ UNCHANGED <<gist, foreignKeyVars, columnVars, bridgeVars, exportVars,
                 registryVars, serviceVars, cacheVars>>

\* writeFile settles: the file holds what this call read and changed, and
\* the controller answers.
PatchWrites(p) ==
  /\ patches[p].pc = "writing"
  /\ gist' = patches[p].gistData
  /\ patches' = [patches EXCEPT ![p] = [@ EXCEPT !.pc = "done", !.status = "200"]]
  /\ UNCHANGED <<foreignKeyVars, columnVars, bridgeVars, exportVars,
                 registryVars, serviceVars, cacheVars>>

GistNext ==
  \/ Create
  \/ \E p \in PatchCalls : PatchBegins(p) \/ PatchReads(p) \/ PatchWrites(p)

GistSpec == GistInit /\ [][GistNext]_vars

\* =================================================================== claims
\* The artifacts in the order their timestamps were issued.
Issued == tableMigrations \o relationshipMigrations

\* Both tables and both fields of a reference exist in the diagram.
Resolves(r) ==
  LET startTable == tableMapGet(diagram.tables, r.startTableId)
      endTable == tableMapGet(diagram.tables, r.endTableId)
  IN  /\ startTable # <<>>
      /\ endTable # <<>>
      /\ findField(startTable[1].fields, r.startFieldId) # <<>>
      /\ findField(endTable[1].fields, r.endFieldId) # <<>>

References == {diagram.references[i] : i \in 1..Len(diagram.references)}

TableNameOf(id) == tableMapGet(diagram.tables, id)[1].name

Returned == pc = "done" /\ result.success

ArtifactsOf(kind, tableName) ==
  {i \in 1..Len(result.migrations) :
     result.migrations[i].type = kind /\ result.migrations[i].table = tableName}

\* C1: in a successful result, the foreign_keys artifact of a resolving
\* reference's source table has a timestamp that sorts strictly after the
\* timestamps of the create-table artifacts of its source and target tables.
C1_ForeignKeysAfterTables ==
  Returned =>
    \A r \in References :
      Resolves(r) =>
        \A fk \in ArtifactsOf("foreign_keys", TableNameOf(r.startTableId)) :
          \A ct \in ArtifactsOf("table", TableNameOf(r.startTableId))
                    \cup ArtifactsOf("table", TableNameOf(r.endTableId)) :
            localeCompare(result.migrations[ct].timestamp,
                          result.migrations[fk].timestamp) < 0

\* C2: the timestamps one call hands out are pairwise distinct and strictly
\* increasing, as strings, in the order they are issued, and so are the
\* filenames distinct.
C2_TimestampsIncrease ==
  \A i, j \in 1..Len(Issued) :
    i < j =>
      /\ localeCompare(Issued[i].timestamp, Issued[j].timestamp) < 0
      /\ Issued[i].filename # Issued[j].filename

\* C3: a second call with the same diagram, the same options and the same
\* supplied baseTimestamp returns the same outcome and the same migrations,
\* element by element (order, filename, timestamp, content), whatever the
\* wall clock shows.
C3_SameInputSameMigrations ==
  (pc = "done" /\ calls = 2 /\ options.baseTimestamp.kind # "absent") =>
    /\ result.success = first.success
    /\ result.keys = first.keys
    /\ result.migrations = first.migrations

\* C3's case: a second call, a second later, returned create-table and
\* foreign_keys artifacts for a supplied baseTimestamp.
C3_Witness ==
  /\ pc = "done"
  /\ calls = 2
  /\ clock # MidYear
  /\ options.baseTimestamp.kind = "date"
  /\ result.success
  /\ Len(tableMigrations) >= 2
  /\ Len(relationshipMigrations) >= 1

\* C4: a successful result holds exactly one create-table artifact per table
\* of diagram.tables, in the tables' order, each before every foreign_keys
\* artifact.
C4_TablesInInputOrder ==
  (Returned /\ diagram.hasTables) =>
    LET creates == SelectSeq(result.migrations, LAMBDA m : m.type = "table")
    IN  /\ Len(creates) = Len(diagram.tables)
        /\ \A i \in 1..Len(creates) : creates[i].table = diagram.tables[i].name
        /\ \A i, j \in 1..Len(result.migrations) :
             (result.migrations[i].type = "table"
              /\ result.migrations[j].type = "foreign_keys") => i < j

\* The references that start from the table with this id.
ReferencesFrom(id) ==
  {i \in 1..Len(diagram.references) : diagram.references[i].startTableId = id}

\* C5: a successful result (foreign keys wanted) holds exactly one
\* foreign_keys artifact for each table that is the source of a reference and
\* none for another table, with one constraint statement per reference of
\* that table, after the create-table artifacts.
C5_OneForeignKeysArtifactPerSource ==
  (Returned /\ options.includeForeignKeys /\ diagram.hasTables /\ diagram.hasReferences) =>
    /\ \A t \in 1..Len(diagram.tables) :
         LET mine == ArtifactsOf("foreign_keys", diagram.tables[t].name)
             refs == ReferencesFrom(diagram.tables[t].id)
         IN  IF refs = {} THEN mine = {}
             ELSE /\ Cardinality(mine) = 1
                  /\ \A m \in mine :
                       Len(result.migrations[m].content.up.statements) = Cardinality(refs)
    /\ \A i, j \in 1..Len(result.migrations) :
         (result.migrations[i].type = "table"
          /\ result.migrations[j].type = "foreign_keys") => i < j

\* C6: with a reference that names a table or a field the diagram does not
\* have, the call returns a failure and no migrations.
C6_DanglingReferenceAborts ==
  (pc = "done" /\ options.includeForeignKeys /\ \E r \in References : ~Resolves(r)) =>
    /\ ~result.success
    /\ "migrations" \notin result.keys


\* The table-level reference graph: an edge from the referencing table to
\* the referenced table, for the references whose two tables exist.
TableIds == {diagram.tables[i].id : i \in 1..Len(diagram.tables)}

Edges ==
  {<<r.startTableId, r.endTableId>> :
     r \in {x \in References : x.startTableId \in TableIds /\ x.endTableId \in TableIds}}

RECURSIVE ReachesWithin(_, _, _)
\* A path of at least one and at most k edges leads from a to b.
ReachesWithin(a, b, k) ==
  /\ k > 0
  /\ \/ <<a, b>> \in Edges
     \/ \E c \in TableIds : <<a, c>> \in Edges /\ ReachesWithin(c, b, k - 1)

\* Two distinct tables lie on one cycle of the graph.
HasCycle ==
  \E a, b \in TableIds :
    /\ a # b
    /\ ReachesWithin(a, b, Cardinality(TableIds))
    /\ ReachesWithin(b, a, Cardinality(TableIds))

\* C7: with a cycle over two or more distinct tables in the table-level
\* reference graph, the call returns a failure (naming the cycle's tables) and
\* no migrations.
C7_CycleRejected ==
  (pc = "done" /\ options.includeForeignKeys /\ HasCycle) =>
    /\ ~result.success
    /\ result.error # ""
    /\ "migrations" \notin result.keys

\* The references from a table to itself whose fields exist.
SelfReferences == {r \in References : r.startTableId = r.endTableId /\ Resolves(r)}

\* The foreign_keys artifact of r's source table holds r's constraint.
ConstraintEmitted(r) ==
  LET table == tableMapGet(diagram.tables, r.startTableId)[1]
      column == findField(table.fields, r.startFieldId)[1].name
      target == TableNameOf(r.endTableId)
  IN  \E m \in ArtifactsOf("foreign_keys", table.name) :
        \E k \in 1..Len(result.migrations[m].content.up.statements) :
          /\ result.migrations[m].content.up.statements[k].column = column
          /\ result.migrations[m].content.up.statements[k].on = target

TypeFamily(type) ==
  CASE type \in {"INT", "TINYINT", "SMALLINT", "MEDIUMINT", "BIGINT"} -> "integers"
    [] type \in {"VARCHAR", "CHAR", "TEXT"} -> "strings"
    [] type \in {"DECIMAL", "FLOAT", "DOUBLE"} -> "decimals"
    [] type \in {"DATE", "DATETIME", "TIMESTAMP"} -> "dates"
    [] type \in {"UUID", "JSON", "BOOLEAN"} -> "special"
    [] OTHER -> "undefined"

\* The two fields of a resolving reference have types of different families.
CrossFamily(r) ==
  /\ Resolves(r)
  /\ LET startTable == tableMapGet(diagram.tables, r.startTableId)[1]
         endTable == tableMapGet(diagram.tables, r.endTableId)[1]
     IN  TypeFamily(findField(startTable.fields, r.startFieldId)[1].type)
           # TypeFamily(findField(endTable.fields, r.endFieldId)[1].type)

\* C9: with a reference whose two fields have types of different families,
\* the call returns a failure and no migrations.
C9_CrossFamilyAborts ==
  (pc = "done" /\ options.includeForeignKeys /\ \E r \in References : CrossFamily(r)) =>
    /\ ~result.success
    /\ "migrations" \notin result.keys

\* C10: toLaravel never throws to its caller; what it returns is a success
\* with migrations or a failure with an error message and no migrations.
C10_NeverThrows ==
  /\ pc # "thrown"
  /\ pc = "done" =>
       \/ result.success /\ "migrations" \in result.keys
       \/ ~result.success /\ result.error # "" /\ "migrations" \notin result.keys

\* ------------------------------------------------ the constraint statements
\* The singular of a table's name.
Singular(tableName) ==
  CASE tableName = "users" -> "user"
    [] tableName = "categories" -> "category"
    [] tableName = "staff" -> "staff"

Rendered == relationship # <<>> /\ statement # <<>>

\* The statement is in the explicit form and names the source column, the
\* target column, the target table and the constraint.
ExplicitForm ==
  /\ statement.form = "foreign"
  /\ statement.column = relationship.localColumn
  /\ statement.references = relationship.foreignColumn
  /\ statement.on = relationship.foreignTable
  /\ statement.name = relationship.tableName \o "_" \o relationship.localColumn
                       \o "_foreign"

\* The statement is in the terse form: the source column and the target table.
TerseForm ==
  /\ statement.form = "foreignId"
  /\ statement.column = relationship.localColumn
  /\ statement.on = relationship.foreignTable

\* C12: a reference is rendered in the terse form exactly when its source
\* column's name is <singular of the target table>_<target field>, and in the
\* explicit form, naming source column, target column, target table and
\* constraint, in every other case.
C12_TerseWhenConventional ==
  Rendered =>
    IF relationship.localColumn
         = Singular(relationship.foreignTable) \o "_" \o relationship.foreignColumn
    THEN TerseForm
    ELSE ExplicitForm

\* C12 as amended: a reference is rendered in the terse form exactly when its
\* target field is id and its source column's name is the target table's name
\* without a final s, followed by _id; in every other case it is rendered in
\* the explicit form, naming source column, target column, target table and
\* constraint.
C12_TerseWhenIdConvention ==
  Rendered =>
    IF /\ relationship.foreignColumn = "id"
       /\ relationship.localColumn = StripFinalS(relationship.foreignTable) \o "_id"
    THEN TerseForm
    ELSE ExplicitForm

\* C12's case: a terse statement for a target table whose singular is not
\* its name without the final s (categorie_id -> categories.id).
C12_Witness ==
  /\ Rendered
  /\ TerseForm
  /\ relationship.foreignTable = "categories"

\* The action a listed constraint value stands for.
ActionOf(constraint) ==
  CASE constraint = "CASCADE" -> "cascade"
    [] constraint = "SET_NULL" -> "set null"
    [] constraint = "RESTRICT" -> "restrict"
    [] constraint = "NO_ACTION" -> "no action"
    [] constraint = "SET_DEFAULT" -> "set default"

\* The clause a statement must carry for a constraint value: none for
\* restrict, the action otherwise.
ClauseOf(constraint) ==
  IF ActionOf(constraint) = "restrict" THEN <<>> ELSE <<ActionOf(constraint)>>

\* C13: in both forms a statement has an onUpdate (onDelete) clause exactly
\* when the reference's update (delete) action is not restrict, and the clause
\* is that action: cascade, set null, no action or set default.
C13_ActionClauses ==
  Rendered =>
    /\ relationship.updateConstraint # "NONE" =>
          statement.actions.onUpdate = ClauseOf(relationship.updateConstraint)
    /\ relationship.deleteConstraint # "NONE" =>
          statement.actions.onDelete = ClauseOf(relationship.deleteConstraint)

\* C13's case: a terse statement with a set null clause and no onDelete
\* clause, the delete action being restrict.
C13_Witness ==
  /\ Rendered
  /\ statement.form = "foreignId"
  /\ relationship.updateConstraint = "SET_NULL"
  /\ relationship.deleteConstraint = "RESTRICT"
  /\ statement.actions = [onUpdate |-> <<"set null">>, onDelete |-> <<>>]

\* ------------------------------------------------------------ the rollbacks
\* The name of the constraint a statement of a table's artifact adds: the one
\* an explicit statement states, <table>_<column>_foreign for a terse one.
AddedConstraint(tableName, stmt) ==
  IF stmt.form = "foreign" THEN stmt.name
  ELSE tableName \o "_" \o stmt.column \o "_foreign"

MaxPrecision == 65
MaxScale == 30

\* The column came from a database's catalog (and not from the editor).
Introspected == "dataType" \in DOMAIN col.source

\* toLaravel has returned for the table of the column.
Exported == cpc = "exported" /\ exported # <<>>

\* The column definition of the field in the table's migration.
RenderedColumn == exported.migrations[1].content.up.columns[1]

\* The Blueprint methods that make a serial key by themselves.
SerialMethods == {"id", "increments", "bigIncrements"}

\* The modifiers of the rendered column, as a set.
RenderedModifiers ==
  {RenderedColumn.modifiers[i] : i \in 1..Len(RenderedColumn.modifiers)}

\* The types mapFieldTypeToLaravel has a mapper for.
MappedTypes ==
  {"INT", "BIGINT", "TINYINT", "VARCHAR", "CHAR", "TEXT", "LONGTEXT", "DATETIME",
   "TIMESTAMP", "DATE", "TIME", "BOOLEAN", "DECIMAL", "FLOAT", "DOUBLE", "JSON",
   "UUID", "ENUM", "BINARY"}

\* C15: a fixed-point column of a database (decimal, numeric) whose precision
\* p and scale s are within the target's limits, s = 0 included, is rendered,
\* after introspection and import, as a decimal column with exactly p and s.
C15_FixedPointPreserved ==
  (/\ Exported
   /\ Introspected
   /\ col.source.dataType \in {"decimal", "numeric", "NUMERIC"}
   /\ col.source.precision <= MaxPrecision
   /\ col.source.scale <= MaxScale) =>
    /\ RenderedColumn.definition.method = "decimal"
    /\ RenderedColumn.definition.arguments = <<col.source.precision, col.source.scale>>

\* C16: a fixed-point field whose precision or scale is above the target's
\* maximum is rendered with the precision and the scale cut to the maximum,
\* and the result has a warning.
C16_FixedPointClamped ==
  (/\ Exported
   /\ col.at.type = "DECIMAL"
   /\ col.at.precision > MaxPrecision \/ col.at.scale > MaxScale) =>
    /\ RenderedColumn.definition.method = "decimal"
    /\ RenderedColumn.definition.arguments[1] <= MaxPrecision
    /\ RenderedColumn.definition.arguments[2] <= MaxScale
    /\ col.at.precision > MaxPrecision =>
          RenderedColumn.definition.arguments[1] = MaxPrecision
    /\ col.at.scale > MaxScale =>
          RenderedColumn.definition.arguments[2] = MaxScale
    /\ exported.warnings # <<>>

\* C17: a field whose type has no mapper is rendered as a string column and
\* the result then has a warning; the warnings are empty only if no field
\* fell back.
C17_FallbackWarns ==
  (Exported /\ col.at.type \notin MappedTypes) =>
    /\ RenderedColumn.definition.method = "string"
    /\ exported.warnings # <<>>

\* C18: a field that is an auto-incrementing integer primary key is rendered
\* as a serial key: the column is marked primary and auto-incrementing, by
\* its method or by its modifiers.
C18_SerialKeyMarked ==
  (/\ Exported
   /\ col.at.type \in {"INT", "BIGINT", "TINYINT"}
   /\ col.at.primary
   /\ col.at.increment) =>
    \/ RenderedColumn.definition.method \in SerialMethods
    \/ /\ "primary()" \in RenderedModifiers
       /\ "autoIncrement()" \in RenderedModifiers

\* ------------------------------------------------------- the imported diagram
\* The names of the items of a sequence, in order.
NamesOf(items) == [i \in 1..Len(items) |-> items[i].name]

\* The import of a schema has returned a diagram.
ImportEnded == schema # <<>> /\ bpc = "diagram"

\* The tables and fields named by a relationship of the imported diagram.
EndpointNames(rel) ==
  LET startTable == tableMapGet(imported.tables, rel.startTableId)[1]
      endTable == tableMapGet(imported.tables, rel.endTableId)[1]
  IN  [fromTable |-> startTable.name,
       fromColumn |-> findField(startTable.fields, rel.startFieldId)[1].name,
       toTable |-> endTable.name,
       toColumn |-> findField(endTable.fields, rel.endFieldId)[1].name]

\* C11: the diagram imported from the DBML of an introspected schema has the
\* schema's tables by name in order, each table's fields by name in order,
\* and one relationship per relationship of the schema, between the same
\* tables and fields by name.
C11_RoundTrip ==
  ImportEnded =>
    /\ NamesOf(imported.tables) = NamesOf(schema.tables)
    /\ \A i \in 1..Len(schema.tables) :
         NamesOf(imported.tables[i].fields) = NamesOf(schema.tables[i].fields)
    /\ Len(imported.relationships) = Len(schema.relationships)
    /\ \A i \in 1..Len(schema.relationships) :
         EndpointNames(imported.relationships[i])
           = [fromTable |-> schema.relationships[i].fromTable,
              fromColumn |-> schema.relationships[i].fromColumn,
              toTable |-> schema.relationships[i].toTable,
              toColumn |-> schema.relationships[i].toColumn]

CardinalityOf(startRelation, endRelation) ==
  CASE startRelation = "*" /\ endRelation = "1" -> "many-to-one"
    [] startRelation = "1" /\ endRelation = "*" -> "one-to-many"
    [] startRelation = "1" /\ endRelation = "1" -> "one-to-one"
    [] OTHER -> "many-to-one"

CardinalityName(cardinality) ==
  CASE cardinality = ONE_TO_ONE -> "one-to-one"
    [] cardinality = ONE_TO_MANY -> "one-to-many"
    [] cardinality = MANY_TO_ONE -> "many-to-one"
    [] OTHER -> "none"

\* The refs of the parsed text that became relationships, in order.
FoundRefs == SelectSeq(ast.refs, LAMBDA ref : Found(ref, ast.tables))

\* C20: every relationship of the imported diagram has the cardinality of its
\* ref's endpoint relations: (*,1) many-to-one, (1,*) one-to-many, (1,1)
\* one-to-one, and many-to-one for every other pair, (*,*) included.
C20_ThreeCardinalities ==
  bpc = "diagram" =>
    /\ Len(imported.relationships) = Len(FoundRefs)
    /\ \A i \in 1..Len(FoundRefs) :
         CardinalityName(imported.relationships[i].cardinality)
           = CardinalityOf(FoundRefs[i].endpoints[1].relation,
                           FoundRefs[i].endpoints[2].relation)

\* C20's case: a ref whose two endpoints are both many, imported as a
\* many-to-one relationship.
C20_Witness ==
  /\ bpc = "diagram"
  /\ Len(imported.relationships) = 1
  /\ FoundRefs[1].endpoints[1].relation = "*"
  /\ FoundRefs[1].endpoints[2].relation = "*"
  /\ imported.relationships[1].cardinality = MANY_TO_ONE

\* The canonical type the map of a database type assigns to a raw type name,
\* letter case aside; the upper-cased name for a name no map lists.
CanonicalType(databaseType, dataType) ==
  LET lowered == toLowerCase(dataType)
  IN  CASE databaseType = "mysql" /\ lowered = "int" -> "INT"
        [] databaseType = "mysql" /\ lowered = "varchar" -> "VARCHAR"
        [] databaseType = "mysql" /\ lowered = "decimal" -> "DECIMAL"
        [] databaseType = "postgres" /\ lowered = "integer" -> "INT"
        [] databaseType = "postgres" /\ lowered = "numeric" -> "DECIMAL"
        [] databaseType = "postgres" /\ lowered = "jsonb" -> "JSONB"
        [] databaseType = "postgres" /\ lowered = "uuid" -> "UUID"
        [] databaseType = "sqlite" /\ lowered = "integer" -> "INT"
        [] databaseType = "sqlite" /\ lowered = "numeric" -> "DECIMAL"
        [] OTHER -> toUpperCase(dataType)

\* C25: for every database type and every raw type name its map lists,
\* mapDataType returns the canonical type of the map whatever the letter case
\* of the name; a name the map does not list is returned upper-cased.
C25_ListedTypesMapped ==
  (Introspected /\ cpc = "schema") =>
    col.at.type = CanonicalType(col.source.databaseType, col.source.dataType)

\* The types of the integer kind.
IntegerTypes == {"INT", "BIGINT", "TINYINT", "SMALLINT", "MEDIUMINT", "INTEGER"}

\* C26: the rendered column of a field whose type is not of the integer kind
\* has no autoIncrement() modifier, whether or not the field is flagged
\* increment.
C26_AutoIncrementOnIntegersOnly ==
  (Exported /\ col.at.type \notin IntegerTypes) =>
    "autoIncrement()" \notin RenderedModifiers

\* The code of the action of a Ref line's setting, that of none when the
\* line has no such setting.
ConstraintCode(setting) ==
  IF setting = <<>> THEN constraintOf("none") ELSE constraintOf(setting[1])

\* C30: the updateConstraint of every relationship of the imported diagram is
\* the code of its ref's update action and its deleteConstraint the code of
\* its ref's delete action, the code of none for an action the ref leaves out.
C30_ActionsKeepTheirSide ==
  bpc = "diagram" =>
    \A i \in 1..Len(imported.relationships) :
      /\ i <= Len(FoundRefs)
      /\ imported.relationships[i].updateConstraint
           = ConstraintCode(FoundRefs[i].onUpdate)
      /\ imported.relationships[i].deleteConstraint
           = ConstraintCode(FoundRefs[i].onDelete)

\* The ids of the items of a sequence.
IdsOf(items) == {items[i].id : i \in 1..Len(items)}

\* The table of the imported diagram that has the id, as a set of tables.
ImportedTable(id) ==
  {imported.tables[i] : i \in {j \in 1..Len(imported.tables) : imported.tables[j].id = id}}

\* C27: in the imported diagram every relationship starts and ends at a table
\* of the diagram and at a field of that table, and the ids of the
\* relationships are 0, 1, ... in the order of the relationships, whether or
\* not a ref of the text was skipped.
C27_RelationshipsResolve ==
  bpc = "diagram" =>
    \A i \in 1..Len(imported.relationships) :
      LET rel == imported.relationships[i]
      IN  /\ rel.id = i - 1
          /\ \E t \in ImportedTable(rel.startTableId) : rel.startFieldId \in IdsOf(t.fields)
          /\ \E t \in ImportedTable(rel.endTableId) : rel.endFieldId \in IdsOf(t.fields)

\* C27's case: the first ref of the text was skipped and the second became
\* the first relationship of the diagram.
C27_Witness ==
  /\ bpc = "diagram"
  /\ Len(ast.refs) = 2
  /\ ~Found(ast.refs[1], ast.tables)
  /\ Found(ast.refs[2], ast.tables)
  /\ Len(imported.relationships) = 1
  /\ imported.relationships[1].id = 0

\* C28: every enum the text declares is in the imported diagram, under the
\* name it has in the text and with its labels in the order of the text.
C28_EnumsReturned ==
  (bpc = "diagram" /\ dbml.enums # <<>>) =>
    /\ "enums" \in DOMAIN imported
    /\ imported.enums = dbml.enums

\* The annotations of the line convertSchemaToDBML wrote for the column.
Annotations == {col.at.settings[i] : i \in 1..Len(col.at.settings)}

\* C29: the line convertSchemaToDBML writes for a field has the annotation of
\* every attribute the field has: pk, increment, not null, unique, the
\* default if it is not null and the note if the comment is not empty,
\* whatever the other attributes of the field.
C29_EveryAttributeAnnotated ==
  (Introspected /\ cpc = "dbml") =>
    LET field == getTableStructure(col.source)
    IN  /\ field.primary => "pk" \in Annotations
        /\ field.autoIncrement => "increment" \in Annotations
        /\ ~field.nullable => "not null" \in Annotations
        /\ field.unique => "unique" \in Annotations
        /\ field.default # "" => col.at.default = <<field.default>>
        /\ field.comment # "" => col.at.note = <<field.comment>>

\* The column a resolving reference starts at is not named after the table
\* and the field it points to: <table name without its final s>_<field name>.
Unconventional(r) ==
  /\ Resolves(r)
  /\ LET startTable == tableMapGet(diagram.tables, r.startTableId)[1]
         endTable == tableMapGet(diagram.tables, r.endTableId)[1]
     IN  findField(startTable.fields, r.startFieldId)[1].name
           # StripFinalS(endTable.name) \o "_"
               \o findField(endTable.fields, r.endFieldId)[1].name

\* C24: a successful result for a diagram with a reference whose column is
\* not named by the convention holds a suggestion.
C24_UnconventionalNameSuggested ==
  (Returned /\ options.includeForeignKeys /\ \E r \in References : Unconventional(r)) =>
    result.suggestions # <<>>

\* --------------------------------------------------- the connection registry
\* The requests whose handlers have sent their response and are done.
Done == {r \in Requests : requests[r].pc = "done"}

\* C21: when the handler of a stateless route is done, whatever it answered,
\* the connection it created, if it created one, is closed and the registry
\* has no entry for it.
C21_StatelessReleases ==
  \A r \in Done :
    requests[r].endpoint \in StatelessEndpoints =>
      /\ requests[r].connectionId \notin DOMAIN connections
      /\ requests[r].connectionId \notin opened

\* C21's case: the handler of a stateless route is done after its query threw
\* on the connection it had created, and another after a query that resolved.
C21_Witness ==
  /\ \E r \in Done :
       /\ requests[r].endpoint \in StatelessEndpoints \ {"test-connection"}
       /\ requests[r].connectionId # NoConnection
       /\ requests[r].status = "500"
  /\ \E r \in Done :
       /\ requests[r].endpoint \in StatelessEndpoints
       /\ requests[r].connectionId # NoConnection
       /\ requests[r].status = "200"

\* The requests whose handlers are waiting for a query on the connection.
UsersOf(connectionId) ==
  {r \in Requests : requests[r].pc = "querying" /\ requests[r].connectionId = connectionId}

\* C22: no connection of the registry is in use by two requests in flight.
C22_NoSharedConnection ==
  \A connectionId \in DOMAIN connections : Cardinality(UsersOf(connectionId)) <= 1

\* The connection has been in the registry for longer than maxAge.
Expired(connectionId) ==
  connectionId \in cleanupConnections(connections, wallTime)

\* C23: a connection that has been in the registry for longer than maxAge is
\* in the end closed and removed, whether or not a client sends a request.
C23_ExpiredSwept ==
  \A connectionId \in 1..MaxConnections :
    Expired(connectionId) ~> (connectionId \notin DOMAIN connections)

\* ------------------------------------------------ the foreign_keys artifacts
\* Blueprint::foreignId adds a column to the table; Blueprint::foreign adds
\* a constraint on a column the table has.
CreatesColumn(st) == st.form = "foreignId"

\* The columns the create-table artifacts of a table define.
CreatedColumns(tableName) ==
  UNION { {result.migrations[m].content.up.columns[i].definition.column :
             i \in 1..Len(result.migrations[m].content.up.columns)} :
          m \in ArtifactsOf("table", tableName) }

\* C31: in a successful result no statement of a table's foreign_keys artifact
\* creates a column that the create-table artifact of the table defines.
C31_ColumnCreatedOnce ==
  Returned =>
    \A m \in 1..Len(result.migrations) :
      result.migrations[m].type = "foreign_keys" =>
        \A k \in 1..Len(result.migrations[m].content.up.statements) :
          LET st == result.migrations[m].content.up.statements[k]
          IN  CreatesColumn(st) => st.column \notin CreatedColumns(result.migrations[m].table)

\* The names of the constraints of a foreign_keys artifact, in order: what
\* its rollback drops.
ConstraintNames(m) == result.migrations[m].content.down.dropForeign

\* C32: the constraints of one foreign_keys artifact have pairwise distinct
\* names, also when several references start at the same column.
C32_ConstraintNamesDistinct ==
  Returned =>
    \A m \in 1..Len(result.migrations) :
      result.migrations[m].type = "foreign_keys" =>
        \A i, j \in 1..Len(ConstraintNames(m)) :
          i # j => ConstraintNames(m)[i] # ConstraintNames(m)[j]

\* C33: every foreign_keys artifact of a successful result has at least one
\* constraint statement.
C33_NoEmptyForeignKeysArtifact ==
  Returned =>
    \A m \in 1..Len(result.migrations) :
      result.migrations[m].type = "foreign_keys" =>
        Len(result.migrations[m].content.up.statements) >= 1

\* ------------------------------------------------------ the two type tables
\* The raw type names of the model that the map of a database type lists,
\* lower-cased.
ListedTypes(databaseType) ==
  CASE databaseType = "mysql" -> {"int", "varchar", "decimal"}
    [] databaseType = "postgres" -> {"integer", "numeric", "jsonb", "uuid"}
    [] databaseType = "sqlite" -> {"integer", "numeric"}

\* C34: a column whose raw type mapDataType found in the map of its database
\* type is rendered by the mapper of its own canonical type, not by the
\* fallback mapper: the canonical type is a key of the Laravel type table.
C34_MappedTypesHaveMappers ==
  (/\ Introspected
   /\ Exported
   /\ toLowerCase(col.source.dataType) \in ListedTypes(col.source.databaseType)
   /\ col.at.type = CanonicalType(col.source.databaseType, col.source.dataType)) =>
    col.at.type \in MappedTypes

\* ------------------------------------------------- the sessions' connections
\* No request is in flight.
Quiet == server = "running" /\ \A r \in Requests : requests[r].pc = "idle"

\* C36: when no request is in flight, every connection of the registry is the
\* connection of the session: no request has left an entry that no session
\* refers to.
C36_NoOrphanConnection ==
  Quiet => \A connectionId \in DOMAIN connections : connectionId = session


\* C35: a listTables call that no other call runs beside issues its query on
\* the connection the registry entry holds at that moment, and not on one the
\* call has ended itself.
C35_QueriesOnCurrentConnection ==
  (invocation.pc = "query" /\ invocation.op = "listTables" /\ invocation.alone)
    => /\ ~invocation.ended
       /\ invocation.connectionId \in DOMAIN registered
       /\ registered[invocation.connectionId].connection = invocation.connection

\* C37: a sweep never ends the connection a getTableSchema or listTables
\* call is still working on.
C37_NoSweepUnderQuery ==
  invocation.pc # "idle" => handles[invocation.connection] # "swept"

\* C38 as stated: after any calls, the keys of the registry are the ids
\* createConnection returned less the ids closed or swept.
C38_RegistryIsLedgerAtOnce ==
  DOMAIN registered = ledger.returned \ ledger.removed

\* C38: once every connection.end() a close or a sweep waits on has settled,
\* whether the driver threw or not, the keys of the registry are the ids
\* createConnection returned less the ids closed or swept.
C38_RegistryIsLedger ==
  pendingCloses = {} => DOMAIN registered = ledger.returned \ ledger.removed

\* C38's case: a closeConnection whose driver close threw has settled, and
\* its entry is gone.
C38_Witness ==
  /\ lastCall = [op |-> "closeConnection", driverThrew |-> TRUE]
  /\ pendingCloses = {}
  /\ ledger.removed # {}
  /\ DOMAIN registered # ledger.returned


\* C39: the schema generateDBML serializes was extracted through the
\* connection the session has at that moment; a schema kept in the session
\* is serialized only if it was kept under that connection.
C39_SchemaOfCurrentConnection ==
  served # <<>> => served.schema.from = served.connectionId


\* C40: when two patch requests on the gist have both been answered, one
\* with a filename only and the other with content only, the stored gist has
\* the filename of the one and the content of the other, overlapping or not.
C40_BothPatchesKept ==
  \A p, q \in PatchCalls :
    ( /\ patches[p].status = "200" /\ patches[q].status = "200"
      /\ patches[p].data.filename # undefined /\ patches[p].data.content = undefined
      /\ patches[q].data.filename = undefined /\ patches[q].data.content # undefined )
    => /\ gist.filename = patches[p].data.filename
       /\ gist.content = patches[q].data.content

====
